---- MODULE Spec2Model ----
(***************************************************************************)
(* Page Object layer of the login/dashboard UI test suite.                 *)
(*                                                                         *)
(* A test drives one page through the page objects (LoginPage,             *)
(* DashboardPage, both over BasePage).  The form fields and the remember-me *)
(* checkbox are the state the test writes.  Everything else on the page    *)
(* (whether an element gets visible in time, which text the banner shows,  *)
(* where the location ends up) belongs to the application, which answers   *)
(* each call the page object makes to the automation engine.  A page-object *)
(* operation is suspended at every such call until the page has answered   *)
(* it; `oracle` holds the answers given to the operation in flight.        *)
(***************************************************************************)
EXTENDS Integers, Sequences, FiniteSets, TLC

VARIABLES
    email,      \* value of the email input
    password,   \* value of the password input
    remember,   \* checked state of the remember-me checkbox
    cur,        \* the page-object operation in flight (op = "idle" when none)
    oracle,     \* the page's answers to the engine calls of the operation in flight
    last,       \* outcome of the last completed operation
    now,        \* the wall clock Date.now() reads, in milliseconds since the run began
    shot,       \* per worker: the screenshot its takeScreenshot call is writing
    taken,      \* the takeScreenshot calls made, in the order they were made
    files       \* tests/reports/screenshots: for each path, the call that wrote it last

\* what the page under test and its page objects are made of
form == <<email, password, remember, cur, oracle, last>>

\* what the workers share: the clock and the reports directory
reports == <<now, shot, taken, files>>

vars == <<email, password, remember, cur, oracle, last, now, shot, taken, files>>

----------------------------------------------------------------------------
(* Constants of the test suite.                                            *)

\* TEST_IDS and the literal data-testid selectors
EMAIL_INPUT == "email-input"
PASSWORD_INPUT == "password-input"
LOGIN_BUTTON == "login-button"
REMEMBER_ME_CHECKBOX == "remember-me-checkbox"
ERROR_MESSAGE == "error-message"
LOADING_SPINNER == "loading-spinner"
DASHBOARD_HEADER == "dashboard-header"
SHOW_PASSWORD_TOGGLE == "show-password-toggle"
LOGIN_FORM == "login-form"
USER_PROFILE == "user-profile"
LOGOUT_BUTTON == "logout-button"
PROFILE_DROPDOWN == "profile-dropdown"
USER_NAME_DISPLAY == "user-name-display"
USER_EMAIL_DISPLAY == "user-email-display"
SETTINGS_LINK == "settings-link"
PROFILE_LINK == "profile-link"
ADMIN_PANEL == "admin-panel"
USER_MANAGEMENT_LINK == "user-management-link"
EMAIL_VALIDATION == "email-validation"
PASSWORD_VALIDATION == "password-validation"

\* URLs
BASE_URL == "https://example.com"
LOGIN == "/login"
DASHBOARD == "/dashboard"

\* ERROR_MESSAGES
INVALID_CREDENTIALS == "Invalid email or password"
SERVER_ERROR == "Server error. Please try again later."
EMAIL_REQUIRED == "Email is required"
PASSWORD_REQUIRED == "Password is required"
INVALID_EMAIL_FORMAT == "Please enter a valid email address"

\* TIMEOUTS (milliseconds)
SHORT == 5000
MEDIUM == 10000

\* default `timeout` parameter of the BasePage helpers
DefaultTimeout == 10000
\* the fixed timeout of the isElementVisible probe
ProbeTimeout == 1000
\* playwright config: use.actionTimeout and expect.timeout
ActionTimeout == 10000
ExpectTimeout == 10000
\* default `timeout` parameter of navigateToUrl and of waitForPageLoad
NavigationTimeout == 30000
\* playwright config: use.navigationTimeout
ConfigNavigationTimeout == 30000
PageLoadTimeout == 30000

----------------------------------------------------------------------------
(* Inputs the tests draw from.                                             *)

Emails == {"", "test@example.com", "invalid-email"}
Passwords == {"", "ValidPassword123!"}
BannerTexts == {"", INVALID_CREDENTIALS, SERVER_ERROR}
Locators == {ERROR_MESSAGE, SHOW_PASSWORD_TOGGLE, LOADING_SPINNER}

\* UserCredentials: rememberMe is optional ("undefined" when absent)
UserCredentials ==
    { [email |-> "test@example.com", password |-> "ValidPassword123!", rememberMe |-> "true"],
      [email |-> "test@example.com", password |-> "ValidPassword123!", rememberMe |-> "undefined"],
      [email |-> "invalid-email", password |-> "ValidPassword123!", rememberMe |-> "false"] }

\* what the profile displays of the dashboard can show
DisplayTexts == {"", "test@example.com", "Test User"}

\* optional expected values of validateUserProfileInfo ("undefined" when absent)
ExpectedEmails == {"undefined", "test@example.com"}
ExpectedNames == {"undefined", "", "Test User"}

\* what a validation hint under a field can show
HintTexts == {"", EMAIL_REQUIRED, PASSWORD_REQUIRED, INVALID_EMAIL_FORMAT}

\* optional expected hints of validateEmailValidation / validatePasswordValidation
ExpectedEmailErrors == {"undefined", EMAIL_REQUIRED, INVALID_EMAIL_FORMAT}
ExpectedPasswordErrors == {"undefined", PASSWORD_REQUIRED}

\* expected messages of validateErrorMessage
ExpectedMessages == {INVALID_CREDENTIALS, SERVER_ERROR}

\* the workers of a parallel run (fullyParallel, workers undefined outside CI)
Workers == {"worker-0", "worker-1"}

\* optional name of takeScreenshot ("undefined" when absent)
ScreenshotNames == {"undefined", "", "login-failure-test"}

\* the run is observed for this many milliseconds and screenshots
MaxClock == 2
MaxShots == 3

\* the report directories global setup creates
ReportDirectories == <<"html", "json", "screenshots", "videos", "traces">>

\* process.env as global setup finds it ("undefined" when a variable is unset)
Environments ==
    {[SKIP_WARMUP |-> k, BASE_URL |-> b] :
        k \in {"undefined", "true", "false"}, b \in {"undefined", "http://localhost:3000"}}

\* config.projects[0]?.use?.baseURL ("undefined" when there is none)
ConfigBaseUrls == {"undefined", BASE_URL}

\* where the browsing context can be
Urls == {BASE_URL \o LOGIN, BASE_URL \o DASHBOARD}

\* optional base URL of navigateToLogin ("undefined" when absent)
BaseUrls == {"undefined", "http://localhost:3000"}

\* JavaScript truthiness of an optional string
StrTruthy(t) == t # "undefined" /\ t # ""

\* JavaScript truthiness of an optional boolean
Truthy(b) == b = "true"

BoolStr(b) == IF b THEN "true" ELSE "false"

\* String.prototype.includes
Includes(s, t) ==
    \E i \in 1..(Len(s) - Len(t) + 1) : SubSeq(s, i, i + Len(t) - 1) = t

----------------------------------------------------------------------------
(* The automation engine.  m is the run of one operation: the form as the  *)
(* run has left it, the engine calls made so far (log), whether an         *)
(* exception is propagating (~ok), whether the run is suspended at a call  *)
(* the page has not answered yet (pending), the value returned, and the    *)
(* failures a catch block has swallowed.                                   *)

Entry(call, el, text, timeout, res, val) ==
    [call |-> call, el |-> el, text |-> text, timeout |-> timeout, res |-> res, val |-> val]

Begin(e, p, r, answers) ==
    [email |-> e, password |-> p, remember |-> r, oracle |-> answers, n |-> 0,
     log |-> <<>>, ok |-> TRUE, pending |-> FALSE, awaiting |-> "",
     retB |-> FALSE, retS |-> "", swallowed |-> {}]

Halted(m) == ~m.ok \/ m.pending
Answered(m) == m.n < Len(m.oracle)
Answer(m) == m.oracle[m.n + 1]
Suspend(m, call) == [m EXCEPT !.pending = TRUE, !.awaiting = call]
Throw(m) == [m EXCEPT !.ok = FALSE]
Record(m, e) == [m EXCEPT !.log = Append(@, e), !.n = @ + 1]
Note(m, e) == [m EXCEPT !.log = Append(@, e)]

\* try { body } catch { } entered from m: whatever the body threw is dropped
Try(m, body, site) ==
    IF Halted(m) \/ body.ok \/ body.pending THEN body
    ELSE [body EXCEPT !.ok = TRUE,
                      !.swallowed = @ \cup {[site |-> site, at |-> Len(body.log)]}]

\* return value of a method that returns a boolean
Return(m, b) == IF Halted(m) THEN m ELSE [m EXCEPT !.retB = b]

\* locator.waitFor({ state, timeout })
LocatorWaitFor(m, el, state, timeout) ==
    IF Halted(m) THEN m
    ELSE IF ~Answered(m) THEN Suspend(m, "waitFor")
    ELSE IF Answer(m).ok
         THEN Record(m, Entry("waitFor", el, state, timeout, "ok", ""))
         ELSE Throw(Record(m, Entry("waitFor", el, state, timeout, "timeout", "")))

\* what a click does to the form: a click on the checkbox toggles it
ClickEffect(m, el) ==
    IF el = REMEMBER_ME_CHECKBOX THEN [m EXCEPT !.remember = ~@] ELSE m

\* locator.click()
LocatorClick(m, el) ==
    IF Halted(m) THEN m
    ELSE IF ~Answered(m) THEN Suspend(m, "click")
    ELSE IF Answer(m).ok
         THEN ClickEffect(Record(m, Entry("click", el, "", ActionTimeout, "ok", "")), el)
         ELSE Throw(Record(m, Entry("click", el, "", ActionTimeout, "fail", "")))

\* the value an input holds after the engine has set it
SetValue(m, el, text) ==
    IF el = EMAIL_INPUT THEN [m EXCEPT !.email = text]
    ELSE IF el = PASSWORD_INPUT THEN [m EXCEPT !.password = text]
    ELSE m

ValueOf(m, el) ==
    IF el = EMAIL_INPUT THEN m.email
    ELSE IF el = PASSWORD_INPUT THEN m.password
    ELSE ""

\* locator.clear()
LocatorClear(m, el) ==
    IF Halted(m) THEN m
    ELSE IF ~Answered(m) THEN Suspend(m, "clear")
    ELSE IF Answer(m).ok
         THEN SetValue(Record(m, Entry("clear", el, "", ActionTimeout, "ok", "")), el, "")
         ELSE Throw(Record(m, Entry("clear", el, "", ActionTimeout, "fail", "")))

\* locator.fill(text)
LocatorFill(m, el, text) ==
    IF Halted(m) THEN m
    ELSE IF ~Answered(m) THEN Suspend(m, "fill")
    ELSE IF Answer(m).ok
         THEN SetValue(Record(m, Entry("fill", el, text, ActionTimeout, "ok", "")), el, text)
         ELSE Throw(Record(m, Entry("fill", el, text, ActionTimeout, "fail", "")))

\* locator.isChecked()
LocatorIsChecked(m, el) ==
    IF Halted(m) THEN m
    ELSE IF ~Answered(m) THEN Suspend(m, "isChecked")
    ELSE IF Answer(m).ok
         THEN [Record(m, Entry("isChecked", el, "", ActionTimeout, "ok", BoolStr(m.remember)))
                  EXCEPT !.retB = m.remember]
         ELSE Throw(Record(m, Entry("isChecked", el, "", ActionTimeout, "fail", "")))

\* locator.inputValue()
LocatorInputValue(m, el) ==
    IF Halted(m) THEN m
    ELSE IF ~Answered(m) THEN Suspend(m, "inputValue")
    ELSE IF Answer(m).ok
         THEN [Record(m, Entry("inputValue", el, "", ActionTimeout, "ok", ValueOf(m, el)))
                  EXCEPT !.retS = ValueOf(m, el)]
         ELSE Throw(Record(m, Entry("inputValue", el, "", ActionTimeout, "fail", "")))

\* locator.textContent(): the page answers with the text it shows
LocatorTextContent(m, el) ==
    IF Halted(m) THEN m
    ELSE IF ~Answered(m) THEN Suspend(m, "textContent")
    ELSE IF Answer(m).ok
         THEN [Record(m, Entry("textContent", el, "", ActionTimeout, "ok", Answer(m).text))
                  EXCEPT !.retS = Answer(m).text]
         ELSE Throw(Record(m, Entry("textContent", el, "", ActionTimeout, "fail", "")))

\* expect(locator).toBeVisible()
ExpectToBeVisible(m, el) ==
    IF Halted(m) THEN m
    ELSE IF ~Answered(m) THEN Suspend(m, "expect.toBeVisible")
    ELSE IF Answer(m).ok
         THEN Record(m, Entry("expect.toBeVisible", el, "", ExpectTimeout, "ok", ""))
         ELSE Throw(Record(m, Entry("expect.toBeVisible", el, "", ExpectTimeout, "fail", "")))

\* expect(actual).toContain(expected): no call to the page
ExpectToContain(m, actual, expected) ==
    IF Halted(m) THEN m
    ELSE IF Includes(actual, expected)
         THEN Note(m, Entry("expect.toContain", "", expected, 0, "ok", actual))
         ELSE Throw(Note(m, Entry("expect.toContain", "", expected, 0, "fail", actual)))

\* expect(actual).toBe(expected) on booleans: no call to the page
ExpectToBe(m, actual, expected) ==
    IF Halted(m) THEN m
    ELSE IF actual = expected
         THEN Note(m, Entry("expect.toBe", "", BoolStr(expected), 0, "ok", BoolStr(actual)))
         ELSE Throw(Note(m, Entry("expect.toBe", "", BoolStr(expected), 0, "fail", BoolStr(actual))))

\* page.goto(url, { waitUntil, timeout })
PageGoto(m, url, waitUntil, timeout) ==
    IF Halted(m) THEN m
    ELSE IF ~Answered(m) THEN Suspend(m, "goto")
    ELSE IF Answer(m).ok
         THEN Record(m, Entry("goto", "page", waitUntil, timeout, "ok", url))
         ELSE Throw(Record(m, Entry("goto", "page", waitUntil, timeout, "timeout", url)))

\* page.waitForLoadState(state, { timeout })
PageWaitForLoadState(m, state, timeout) ==
    IF Halted(m) THEN m
    ELSE IF ~Answered(m) THEN Suspend(m, "waitForLoadState")
    ELSE IF Answer(m).ok
         THEN Record(m, Entry("waitForLoadState", "page", state, timeout, "ok", ""))
         ELSE Throw(Record(m, Entry("waitForLoadState", "page", state, timeout, "timeout", "")))

\* page.url(): the page answers with its current location
PageUrl(m) ==
    IF Halted(m) THEN m
    ELSE IF ~Answered(m) THEN Suspend(m, "url")
    ELSE [Record(m, Entry("url", "location", "", 0, "ok", Answer(m).text))
             EXCEPT !.retS = Answer(m).text]

\* page.waitForFunction(path => !window.location.pathname.includes(path), path, { timeout })
PageWaitForPathNotIncluding(m, path, timeout) ==
    IF Halted(m) THEN m
    ELSE IF ~Answered(m) THEN Suspend(m, "waitForFunction")
    ELSE IF Answer(m).ok
         THEN Record(m, Entry("waitForFunction", "location", path, timeout, "ok", ""))
         ELSE Throw(Record(m, Entry("waitForFunction", "location", path, timeout, "timeout", "")))

\* page.waitForURL(pattern, { timeout })
PageWaitForURL(m, pattern, timeout) ==
    IF Halted(m) THEN m
    ELSE IF ~Answered(m) THEN Suspend(m, "waitForURL")
    ELSE IF Answer(m).ok
         THEN Record(m, Entry("waitForURL", "location", pattern, timeout, "ok", ""))
         ELSE Throw(Record(m, Entry("waitForURL", "location", pattern, timeout, "timeout", "")))

\* await use(page) of a fixture: the test body starts.  No call to the page.
Use(m) ==
    IF Halted(m) THEN m
    ELSE Note(m, Entry("use", "", "", 0, "ok", ""))

\* fs.existsSync(dir): synchronous, throws nothing; the answer tells whether
\* the directory is there
FsExistsSync(m, dir) ==
    IF Halted(m) THEN m
    ELSE IF ~Answered(m) THEN Suspend(m, "existsSync")
    ELSE [Record(m, Entry("existsSync", dir, "", 0, "ok", BoolStr(Answer(m).ok)))
             EXCEPT !.retB = Answer(m).ok]

\* fs.mkdirSync(dir, { recursive: true })
FsMkdirSync(m, dir) ==
    IF Halted(m) THEN m
    ELSE IF ~Answered(m) THEN Suspend(m, "mkdirSync")
    ELSE IF Answer(m).ok
         THEN Record(m, Entry("mkdirSync", dir, "", 0, "ok", ""))
         ELSE Throw(Record(m, Entry("mkdirSync", dir, "", 0, "fail", "")))

\* chromium.launch({ headless: true })
ChromiumLaunch(m) ==
    IF Halted(m) THEN m
    ELSE IF ~Answered(m) THEN Suspend(m, "launch")
    ELSE IF Answer(m).ok
         THEN Record(m, Entry("launch", "browser", "", 0, "ok", ""))
         ELSE Throw(Record(m, Entry("launch", "browser", "", 0, "fail", "")))

\* browser.newContext()
BrowserNewContext(m) ==
    IF Halted(m) THEN m
    ELSE IF ~Answered(m) THEN Suspend(m, "newContext")
    ELSE IF Answer(m).ok
         THEN Record(m, Entry("newContext", "browser", "", 0, "ok", ""))
         ELSE Throw(Record(m, Entry("newContext", "browser", "", 0, "fail", "")))

\* context.newPage()
ContextNewPage(m) ==
    IF Halted(m) THEN m
    ELSE IF ~Answered(m) THEN Suspend(m, "newPage")
    ELSE IF Answer(m).ok
         THEN Record(m, Entry("newPage", "browser", "", 0, "ok", ""))
         ELSE Throw(Record(m, Entry("newPage", "browser", "", 0, "fail", "")))

\* browser.close()
BrowserClose(m) ==
    IF Halted(m) THEN m
    ELSE IF ~Answered(m) THEN Suspend(m, "close")
    ELSE IF Answer(m).ok
         THEN Record(m, Entry("close", "browser", "", 0, "ok", ""))
         ELSE Throw(Record(m, Entry("close", "browser", "", 0, "fail", "")))

\* page.reload({ waitUntil }): no timeout is passed, the configured
\* navigation timeout applies
PageReload(m, waitUntil) ==
    IF Halted(m) THEN m
    ELSE IF ~Answered(m) THEN Suspend(m, "reload")
    ELSE IF Answer(m).ok
         THEN Record(m, Entry("reload", "page", waitUntil, ConfigNavigationTimeout, "ok", ""))
         ELSE Throw(Record(m, Entry("reload", "page", waitUntil, ConfigNavigationTimeout, "timeout", "")))

\* page.goBack({ waitUntil })
PageGoBack(m, waitUntil) ==
    IF Halted(m) THEN m
    ELSE IF ~Answered(m) THEN Suspend(m, "goBack")
    ELSE IF Answer(m).ok
         THEN Record(m, Entry("goBack", "page", waitUntil, ConfigNavigationTimeout, "ok", ""))
         ELSE Throw(Record(m, Entry("goBack", "page", waitUntil, ConfigNavigationTimeout, "timeout", "")))

\* page.goForward({ waitUntil })
PageGoForward(m, waitUntil) ==
    IF Halted(m) THEN m
    ELSE IF ~Answered(m) THEN Suspend(m, "goForward")
    ELSE IF Answer(m).ok
         THEN Record(m, Entry("goForward", "page", waitUntil, ConfigNavigationTimeout, "ok", ""))
         ELSE Throw(Record(m, Entry("goForward", "page", waitUntil, ConfigNavigationTimeout, "timeout", "")))

\* the engine calls the page objects pass a `timeout` option to; every other
\* call is bounded by the configured action, navigation or expect timeout.
\* page.url() is synchronous and does not block.
PassesTimeout == {"waitFor", "goto", "waitForLoadState", "waitForFunction"}
Synchronous == {"url"}

----------------------------------------------------------------------------
(* BasePage                                                                *)

waitForElement(m, locator, timeout) == LocatorWaitFor(m, locator, "visible", timeout)

waitForElementToBeHidden(m, locator, timeout) == LocatorWaitFor(m, locator, "hidden", timeout)

\* isElementVisible that probes with the default timeout of the other helpers
isElementVisibleDefaultTimeout(m, locator) ==
    LET w == LocatorWaitFor(m, locator, "visible", DefaultTimeout)
    IN  IF w.ok THEN Return(w, TRUE)
        ELSE Return(Try(m, w, "isElementVisible"), FALSE)

isElementVisible(m, locator) ==
    LET w == LocatorWaitFor(m, locator, "visible", ProbeTimeout)
    IN  IF w.ok THEN Return(w, TRUE)
        ELSE Return(Try(m, w, "isElementVisible"), FALSE)

\* clickElement wrapped in a try with an empty catch
clickElementSwallowing(m, locator, timeout) ==
    Try(m, LocatorClick(waitForElement(m, locator, timeout), locator), "clickElement")

\* clickElement that clicks a second time when the click has failed
clickElementRetrying(m, locator, timeout) ==
    LET w == waitForElement(m, locator, timeout)
        c == LocatorClick(w, locator)
    IN  IF ~Halted(w) /\ ~c.ok THEN LocatorClick([c EXCEPT !.ok = TRUE], locator) ELSE c

clickElement(m, locator, timeout) ==
    LocatorClick(waitForElement(m, locator, timeout), locator)

\* fillInput that types at the end of what the field holds, without clearing it
fillInputAppending(m, locator, text, timeout) ==
    LET w == waitForElement(m, locator, timeout)
    IN  LocatorFill(w, locator, ValueOf(w, locator) \o text)

fillInput(m, locator, text, timeout) ==
    LocatorFill(LocatorClear(waitForElement(m, locator, timeout), locator), locator, text)

\* textContent() || ''
getElementText(m, locator) ==
    LocatorTextContent(waitForElement(m, locator, DefaultTimeout), locator)

isElementChecked(m, locator) ==
    LocatorIsChecked(waitForElement(m, locator, DefaultTimeout), locator)

\* expect(this.getCurrentUrl()).toContain(expectedPath)
validateUrlContains(m, expectedPath) ==
    LET u == PageUrl(m)
    IN  ExpectToContain(u, u.retS, expectedPath)

navigateToUrl(m, url, timeout) == PageGoto(m, url, "networkidle", timeout)

\* name || `screenshot-${Date.now()}`
screenshotName(name, t) ==
    IF StrTruthy(name) THEN name ELSE "screenshot-" \o ToString(t)

\* the `path` option takeScreenshot gives page.screenshot
screenshotPath(name, t) ==
    "tests/reports/screenshots/" \o screenshotName(name, t) \o ".png"

refreshPage(m) == PageReload(m, "networkidle")

goBack(m) == PageGoBack(m, "networkidle")

goForward(m) == PageGoForward(m, "networkidle")

\* waitForPageLoad that returns once the network is idle
waitForPageLoadNetworkIdleOnly(m, timeout) == PageWaitForLoadState(m, "networkidle", timeout)

waitForPageLoad(m, timeout) ==
    PageWaitForLoadState(PageWaitForLoadState(m, "networkidle", timeout),
                         "domcontentloaded", timeout)

----------------------------------------------------------------------------
(* LoginPage                                                               *)

\* validateLoginFormIsVisible that does not look at the password input
validateLoginFormIsVisibleNoPassword(m) ==
    LET m1 == waitForElement(m, LOGIN_FORM, DefaultTimeout)
        m2 == ExpectToBeVisible(m1, LOGIN_FORM)
        m3 == ExpectToBeVisible(m2, EMAIL_INPUT)
    IN  ExpectToBeVisible(m3, LOGIN_BUTTON)

validateLoginFormIsVisible(m) ==
    LET m1 == waitForElement(m, LOGIN_FORM, DefaultTimeout)
        m2 == ExpectToBeVisible(m1, LOGIN_FORM)
        m3 == ExpectToBeVisible(m2, EMAIL_INPUT)
        m4 == ExpectToBeVisible(m3, PASSWORD_INPUT)
    IN  ExpectToBeVisible(m4, LOGIN_BUTTON)

\* `${baseUrl || URLs.BASE_URL}${URLs.LOGIN}`
navigateToLogin(m, baseUrl) ==
    LET url == (IF StrTruthy(baseUrl) THEN baseUrl ELSE BASE_URL) \o LOGIN
        m1 == navigateToUrl(m, url, NavigationTimeout)
        m2 == waitForPageLoad(m1, PageLoadTimeout)
    IN  validateLoginFormIsVisible(m2)

enterEmail(m, text) == fillInput(m, EMAIL_INPUT, text, DefaultTimeout)

enterPassword(m, text) == fillInput(m, PASSWORD_INPUT, text, DefaultTimeout)

clickLoginButton(m) == clickElement(m, LOGIN_BUTTON, DefaultTimeout)

\* setRememberMe that clicks whatever it has read
setRememberMeAlwaysClicks(m, checked) ==
    clickElement(isElementChecked(m, REMEMBER_ME_CHECKBOX), REMEMBER_ME_CHECKBOX, DefaultTimeout)

\* setRememberMe with the comparison turned round (=== for !==)
setRememberMeInverted(m, checked) ==
    LET r == isElementChecked(m, REMEMBER_ME_CHECKBOX)
    IN  IF Halted(r) THEN r
        ELSE IF r.retB = checked
             THEN clickElement(r, REMEMBER_ME_CHECKBOX, DefaultTimeout)
             ELSE r

setRememberMe(m, checked) ==
    LET r == isElementChecked(m, REMEMBER_ME_CHECKBOX)
    IN  IF Halted(r) THEN r
        ELSE IF r.retB # checked
             THEN clickElement(r, REMEMBER_ME_CHECKBOX, DefaultTimeout)
             ELSE r

\* login that submits before it has entered the password
loginSubmitsEarly(m, credentials) ==
    LET m1 == enterEmail(m, credentials.email)
        m2 == clickLoginButton(m1)
        m3 == enterPassword(m2, credentials.password)
    IN  IF Truthy(credentials.rememberMe) THEN setRememberMe(m3, TRUE) ELSE m3

\* login that sets the checkbox to whatever the credentials say, absent or not
loginAlwaysSetsRememberMe(m, credentials) ==
    LET m1 == enterEmail(m, credentials.email)
        m2 == enterPassword(m1, credentials.password)
        m3 == setRememberMe(m2, Truthy(credentials.rememberMe))
    IN  clickLoginButton(m3)

login(m, credentials) ==
    LET m1 == enterEmail(m, credentials.email)
        m2 == enterPassword(m1, credentials.password)
        m3 == IF Truthy(credentials.rememberMe) THEN setRememberMe(m2, TRUE) ELSE m2
    IN  clickLoginButton(m3)

\* rememberMe: boolean = false
quickLogin(m, e, p, rememberMe) ==
    login(m, [email |-> e, password |-> p,
              rememberMe |-> IF rememberMe = "undefined" THEN "false" ELSE rememberMe])

\* clearForm that leaves the password field alone
clearFormKeepsPassword(m) ==
    LET m1 == LocatorClear(m, EMAIL_INPUT)
        m3 == isElementChecked(m1, REMEMBER_ME_CHECKBOX)
    IN  IF Halted(m3) THEN m3
        ELSE IF m3.retB THEN setRememberMe(m3, FALSE) ELSE m3

clearForm(m) ==
    LET m1 == LocatorClear(m, EMAIL_INPUT)
        m2 == LocatorClear(m1, PASSWORD_INPUT)
        m3 == isElementChecked(m2, REMEMBER_ME_CHECKBOX)
    IN  IF Halted(m3) THEN m3
        ELSE IF m3.retB THEN setRememberMe(m3, FALSE) ELSE m3

\* togglePasswordVisibility that clicks the toggle without probing for it first
togglePasswordVisibilityWithoutProbe(m) ==
    clickElement(m, SHOW_PASSWORD_TOGGLE, DefaultTimeout)

togglePasswordVisibility(m) ==
    LET p == isElementVisible(m, SHOW_PASSWORD_TOGGLE)
    IN  IF Halted(p) THEN p
        ELSE IF p.retB THEN clickElement(p, SHOW_PASSWORD_TOGGLE, DefaultTimeout) ELSE p

\* validateErrorMessage that gives the banner the short time to show
validateErrorMessageShortWait(m, expectedMessage) ==
    LET m1 == waitForElement(m, ERROR_MESSAGE, SHORT)
        m2 == ExpectToBeVisible(m1, ERROR_MESSAGE)
        m3 == getElementText(m2, ERROR_MESSAGE)
    IN  ExpectToContain(m3, m3.retS, expectedMessage)

\* validateErrorMessage that checks that the banner shows, not what it says
validateErrorMessageAnyText(m, expectedMessage) ==
    LET m1 == waitForElement(m, ERROR_MESSAGE, MEDIUM)
        m2 == ExpectToBeVisible(m1, ERROR_MESSAGE)
    IN  getElementText(m2, ERROR_MESSAGE)

validateErrorMessage(m, expectedMessage) ==
    LET m1 == waitForElement(m, ERROR_MESSAGE, MEDIUM)
        m2 == ExpectToBeVisible(m1, ERROR_MESSAGE)
        m3 == getElementText(m2, ERROR_MESSAGE)
    IN  ExpectToContain(m3, m3.retS, expectedMessage)

\* validateNoErrorMessage that probes for the banner and expects nothing
validateNoErrorMessageWithoutExpect(m) == isElementVisible(m, ERROR_MESSAGE)

validateNoErrorMessage(m) ==
    LET p == isElementVisible(m, ERROR_MESSAGE)
    IN  ExpectToBe(p, p.retB, FALSE)

\* waitForLoadingToComplete without its try/catch
waitForLoadingToCompleteNoCatch(m) ==
    waitForElementToBeHidden(waitForElement(m, LOADING_SPINNER, SHORT), LOADING_SPINNER, MEDIUM)

waitForLoadingToComplete(m) ==
    Try(m,
        waitForElementToBeHidden(waitForElement(m, LOADING_SPINNER, SHORT),
                                 LOADING_SPINNER, MEDIUM),
        "waitForLoadingToComplete")

\* validateEmailValidation that checks nothing when no hint is expected
validateEmailValidationOnlyWhenExpected(m, expectedError) ==
    IF StrTruthy(expectedError)
    THEN LET v == ExpectToBeVisible(m, EMAIL_VALIDATION)
             t == getElementText(v, EMAIL_VALIDATION)
         IN  ExpectToContain(t, t.retS, expectedError)
    ELSE m

validateEmailValidation(m, expectedError) ==
    IF StrTruthy(expectedError)
    THEN LET v == ExpectToBeVisible(m, EMAIL_VALIDATION)
             t == getElementText(v, EMAIL_VALIDATION)
         IN  ExpectToContain(t, t.retS, expectedError)
    ELSE LET p == isElementVisible(m, EMAIL_VALIDATION)
         IN  ExpectToBe(p, p.retB, FALSE)

validatePasswordValidation(m, expectedError) ==
    IF StrTruthy(expectedError)
    THEN LET v == ExpectToBeVisible(m, PASSWORD_VALIDATION)
             t == getElementText(v, PASSWORD_VALIDATION)
         IN  ExpectToContain(t, t.retS, expectedError)
    ELSE LET p == isElementVisible(m, PASSWORD_VALIDATION)
         IN  ExpectToBe(p, p.retB, FALSE)

getEmailValue(m) == LocatorInputValue(m, EMAIL_INPUT)

getPasswordValue(m) == LocatorInputValue(m, PASSWORD_INPUT)

isRememberMeChecked(m) == isElementChecked(m, REMEMBER_ME_CHECKBOX)

\* attemptLogin that takes the end of loading for the success of the login
attemptLoginSkipsPoll(m, credentials, expectSuccess) ==
    LET m1 == login(m, credentials)
    IN  IF expectSuccess
        THEN waitForLoadingToComplete(m1)
        ELSE validateErrorMessage(m1, INVALID_CREDENTIALS)

attemptLogin(m, credentials, expectSuccess) ==
    LET m1 == login(m, credentials)
    IN  IF expectSuccess
        THEN PageWaitForPathNotIncluding(waitForLoadingToComplete(m1), LOGIN, MEDIUM)
        ELSE validateErrorMessage(m1, INVALID_CREDENTIALS)

----------------------------------------------------------------------------
(* DashboardPage                                                           *)

validateDashboardIsLoaded(m) ==
    ExpectToBeVisible(waitForElement(m, DASHBOARD_HEADER, MEDIUM), DASHBOARD_HEADER)

validateDashboardUrl(m) == validateUrlContains(m, DASHBOARD)

\* validateSuccessfulLogin that does not look at the profile indicator
validateSuccessfulLoginWithoutProfile(m) ==
    validateDashboardUrl(validateDashboardIsLoaded(m))

validateSuccessfulLogin(m) ==
    validateDashboardUrl(ExpectToBeVisible(validateDashboardIsLoaded(m), USER_PROFILE))

isUserLoggedIn(m) ==
    LET v == validateDashboardIsLoaded(m)
    IN  IF v.ok THEN Return(v, TRUE)
        ELSE Return(Try(m, v, "isUserLoggedIn"), FALSE)

\* validateUserProfileInfo that reads each display without probing for it first
validateUserProfileInfoWithoutProbe(m, expectedEmail, expectedName) ==
    LET m1 == ExpectToBeVisible(waitForElement(m, USER_PROFILE, MEDIUM), USER_PROFILE)
        e == IF Halted(m1) \/ ~StrTruthy(expectedEmail) THEN m1
             ELSE getElementText(m1, USER_EMAIL_DISPLAY)
        m2 == IF Halted(m1) \/ ~StrTruthy(expectedEmail) THEN m1
              ELSE ExpectToContain(e, e.retS, expectedEmail)
        n == IF Halted(m2) \/ ~StrTruthy(expectedName) THEN m2
             ELSE getElementText(m2, USER_NAME_DISPLAY)
    IN  IF Halted(m2) \/ ~StrTruthy(expectedName) THEN m2
        ELSE ExpectToContain(n, n.retS, expectedName)

validateUserProfileInfo(m, expectedEmail, expectedName) ==
    LET m1 == ExpectToBeVisible(waitForElement(m, USER_PROFILE, MEDIUM), USER_PROFILE)
        \* expectedEmail && await this.isElementVisible(this.userEmailDisplay)
        pe == IF Halted(m1) \/ ~StrTruthy(expectedEmail) THEN m1
              ELSE isElementVisible(m1, USER_EMAIL_DISPLAY)
        te == getElementText(pe, USER_EMAIL_DISPLAY)
        m2 == IF Halted(pe) \/ ~StrTruthy(expectedEmail) \/ ~pe.retB THEN pe
              ELSE ExpectToContain(te, te.retS, expectedEmail)
        \* expectedName && await this.isElementVisible(this.userNameDisplay)
        pn == IF Halted(m2) \/ ~StrTruthy(expectedName) THEN m2
              ELSE isElementVisible(m2, USER_NAME_DISPLAY)
        tn == getElementText(pn, USER_NAME_DISPLAY)
    IN  IF Halted(pn) \/ ~StrTruthy(expectedName) \/ ~pn.retB THEN pn
        ELSE ExpectToContain(tn, tn.retS, expectedName)

openProfileDropdown(m) ==
    waitForElement(clickElement(m, PROFILE_DROPDOWN, DefaultTimeout), LOGOUT_BUTTON, SHORT)

\* clickLogout that opens the dropdown whatever the probe has said
clickLogoutAlwaysOpens(m) ==
    LET p == isElementVisible(m, LOGOUT_BUTTON)
    IN  clickElement(openProfileDropdown(p), LOGOUT_BUTTON, DefaultTimeout)

clickLogout(m) ==
    LET p == isElementVisible(m, LOGOUT_BUTTON)
        o == IF Halted(p) THEN p
             ELSE IF ~p.retB THEN openProfileDropdown(p) ELSE p
    IN  clickElement(o, LOGOUT_BUTTON, DefaultTimeout)

\* logout that returns as soon as it has clicked
logoutWithoutPoll(m) == clickLogout(m)

logout(m) == PageWaitForPathNotIncluding(clickLogout(m), DASHBOARD, MEDIUM)

navigateToProfile(m) ==
    LET p == isElementVisible(m, PROFILE_LINK)
        o == IF Halted(p) THEN p
             ELSE IF ~p.retB THEN openProfileDropdown(p) ELSE p
    IN  waitForPageLoad(clickElement(o, PROFILE_LINK, DefaultTimeout), PageLoadTimeout)

navigateToSettings(m) ==
    LET p == isElementVisible(m, SETTINGS_LINK)
        o == IF Halted(p) THEN p
             ELSE IF ~p.retB THEN openProfileDropdown(p) ELSE p
    IN  waitForPageLoad(clickElement(o, SETTINGS_LINK, DefaultTimeout), PageLoadTimeout)

\* validateAdminElements that asserts the controls without probing for them first
validateAdminElementsHard(m) ==
    ExpectToBeVisible(ExpectToBeVisible(m, ADMIN_PANEL), USER_MANAGEMENT_LINK)

validateAdminElements(m) ==
    LET p1 == isElementVisible(m, ADMIN_PANEL)
        e1 == IF Halted(p1) THEN p1
              ELSE IF p1.retB THEN ExpectToBeVisible(p1, ADMIN_PANEL) ELSE p1
        p2 == isElementVisible(e1, USER_MANAGEMENT_LINK)
    IN  IF Halted(p2) THEN p2
        ELSE IF p2.retB THEN ExpectToBeVisible(p2, USER_MANAGEMENT_LINK) ELSE p2

\* validateStandardUserElements that checks the admin panel only
validateStandardUserElementsPanelOnly(m) ==
    LET p1 == isElementVisible(m, ADMIN_PANEL)
        p2 == isElementVisible(p1, USER_MANAGEMENT_LINK)
    IN  ExpectToBe(p2, p1.retB, FALSE)

validateStandardUserElements(m) ==
    LET p1 == isElementVisible(m, ADMIN_PANEL)
        p2 == isElementVisible(p1, USER_MANAGEMENT_LINK)
    IN  ExpectToBe(ExpectToBe(p2, p1.retB, FALSE), p2.retB, FALSE)

----------------------------------------------------------------------------
(* Global setup                                                            *)

\* for (const dir of directories) if (!fs.existsSync(dir)) fs.mkdirSync(dir, ...)
RECURSIVE createReportsDirectories(_, _)
createReportsDirectories(m, directories) ==
    IF directories = <<>> THEN m
    ELSE LET e == FsExistsSync(m, Head(directories))
             d == IF Halted(e) \/ e.retB THEN e ELSE FsMkdirSync(e, Head(directories))
         IN  createReportsDirectories(d, Tail(directories))

\* process.env after setupEnvironmentVariables
setupEnvironmentVariables(env) ==
    IF ~StrTruthy(env.BASE_URL) THEN [env EXCEPT !.BASE_URL = BASE_URL] ELSE env

\* the try block of setupTestData holds no call
setupTestData(m) == Try(m, m, "setupTestData")

warmupApplication(m, baseUrl, env) ==
    IF env.SKIP_WARMUP = "true" THEN m
    ELSE LET baseURL == IF StrTruthy(baseUrl) THEN baseUrl ELSE env.BASE_URL
             launched == ChromiumLaunch(m)
             opened == ContextNewPage(BrowserNewContext(launched))
             warmed == PageGoto(opened, baseURL, "networkidle", 30000)
             visited == PageGoto(warmed, baseURL \o "/login", "networkidle", 30000)
             tried == Try(opened, visited, "warmup navigation")
             shut == BrowserClose(tried)
         IN  IF ~StrTruthy(baseURL) THEN m
             ELSE Try(m, shut, "warmupApplication")

globalSetup(m, baseUrl, env) ==
    LET d == createReportsDirectories(m, ReportDirectories)
        t == setupTestData(d)
    IN  warmupApplication(t, baseUrl, setupEnvironmentVariables(env))

----------------------------------------------------------------------------
(* Fixtures                                                                *)

\* authenticatedPage that hands the page to the test once the form is submitted
authenticatedPageWithoutUrlWait(m) ==
    LET m1 == navigateToLogin(m, "undefined")
        m2 == quickLogin(m1, "test@example.com", "ValidPassword123!", "undefined")
    IN  Use(m2)

authenticatedPage(m) ==
    LET m1 == navigateToLogin(m, "undefined")
        m2 == quickLogin(m1, "test@example.com", "ValidPassword123!", "undefined")
        m3 == PageWaitForURL(m2, "**/dashboard", 10000)
    IN  Use(m3)

adminPage(m) ==
    LET m1 == navigateToLogin(m, "undefined")
        m2 == quickLogin(m1, "admin@example.com", "AdminPassword123!", "undefined")
        m3 == PageWaitForURL(m2, "**/dashboard", 10000)
    IN  Use(m3)

----------------------------------------------------------------------------
(* The test: it calls one page-object operation after the other; a call    *)
(* that fails ends the test.                                               *)

Idle ==
    [op |-> "idle", email |-> "", password |-> "", rememberMe |-> "undefined",
     checked |-> FALSE, expectSuccess |-> FALSE, locator |-> "",
     url |-> "undefined", name |-> "undefined", expected |-> "undefined",
     env |-> [SKIP_WARMUP |-> "undefined", BASE_URL |-> "undefined"]]

Invoke(op) == [Idle EXCEPT !.op = op]

\* the operation c run on the form as it stands, with the answers given so far
Run(c, answers) ==
    LET m == Begin(email, password, remember, answers)
    IN  CASE c.op = "enterEmail" -> enterEmail(m, c.email)
          [] c.op = "enterPassword" -> enterPassword(m, c.password)
          [] c.op = "clickLoginButton" -> clickLoginButton(m)
          [] c.op = "setRememberMe" -> setRememberMe(m, c.checked)
          [] c.op = "login" ->
                login(m, [email |-> c.email, password |-> c.password,
                          rememberMe |-> c.rememberMe])
          [] c.op = "quickLogin" -> quickLogin(m, c.email, c.password, c.rememberMe)
          [] c.op = "clearForm" -> clearForm(m)
          [] c.op = "getEmailValue" -> getEmailValue(m)
          [] c.op = "getPasswordValue" -> getPasswordValue(m)
          [] c.op = "isRememberMeChecked" -> isRememberMeChecked(m)
          [] c.op = "isElementVisible" -> isElementVisible(m, c.locator)
          [] c.op = "waitForLoadingToComplete" -> waitForLoadingToComplete(m)
          [] c.op = "attemptLogin" ->
                attemptLogin(m, [email |-> c.email, password |-> c.password,
                                 rememberMe |-> c.rememberMe], c.expectSuccess)
          [] c.op = "isUserLoggedIn" -> isUserLoggedIn(m)
          [] c.op = "togglePasswordVisibility" -> togglePasswordVisibility(m)
          [] c.op = "navigateToUrl" -> navigateToUrl(m, c.url, NavigationTimeout)
          [] c.op = "waitForPageLoad" -> waitForPageLoad(m, PageLoadTimeout)
          [] c.op = "navigateToLogin" -> navigateToLogin(m, c.url)
          [] c.op = "validateUserProfileInfo" -> validateUserProfileInfo(m, c.email, c.name)
          [] c.op = "clickLogout" -> clickLogout(m)
          [] c.op = "logout" -> logout(m)
          [] c.op = "navigateToProfile" -> navigateToProfile(m)
          [] c.op = "navigateToSettings" -> navigateToSettings(m)
          [] c.op = "validateAdminElements" -> validateAdminElements(m)
          [] c.op = "validateStandardUserElements" -> validateStandardUserElements(m)
          [] c.op = "validateDashboardIsLoaded" -> validateDashboardIsLoaded(m)
          [] c.op = "validateErrorMessage" -> validateErrorMessage(m, c.expected)
          [] c.op = "validateNoErrorMessage" -> validateNoErrorMessage(m)
          [] c.op = "validateEmailValidation" -> validateEmailValidation(m, c.expected)
          [] c.op = "validatePasswordValidation" -> validatePasswordValidation(m, c.expected)
          [] c.op = "validateSuccessfulLogin" -> validateSuccessfulLogin(m)
          [] c.op = "validateDashboardUrl" -> validateDashboardUrl(m)
          [] c.op = "authenticatedPage" -> authenticatedPage(m)
          [] c.op = "adminPage" -> adminPage(m)
          [] c.op = "globalSetup" -> globalSetup(m, c.url, c.env)
          [] c.op = "waitForElement" -> waitForElement(m, c.locator, DefaultTimeout)
          [] c.op = "refreshPage" -> refreshPage(m)
          [] c.op = "goBack" -> goBack(m)
          [] c.op = "goForward" -> goForward(m)
          [] OTHER -> m

Running == Run(cur, oracle)

Outcome(c, m) ==
    [call |-> c, ok |-> m.ok, retB |-> m.retB, retS |-> m.retS, log |-> m.log,
     swallowed |-> m.swallowed]

Init ==
    /\ email = ""
    /\ password = ""
    /\ remember \in BOOLEAN
    /\ cur = Idle
    /\ oracle = <<>>
    /\ last = Outcome(Idle, Begin("", "", FALSE, <<>>))
    /\ now = 0
    /\ shot = [w \in Workers |-> ""]
    /\ taken = <<>>
    /\ files = [f \in {} |-> 0]

\* the test may make its next call: no operation is in flight and none has failed
Ready == cur.op = "idle" /\ last.ok

\* the call c is made: the operation starts and is suspended at its first engine call
Call(c) ==
    /\ cur' = c
    /\ oracle' = <<>>
    /\ UNCHANGED <<email, password, remember, last>>
    /\ UNCHANGED reports

EnterEmail ==
    /\ Ready
    /\ \E t \in Emails : Call([Invoke("enterEmail") EXCEPT !.email = t])

EnterPassword ==
    /\ Ready
    /\ \E t \in Passwords : Call([Invoke("enterPassword") EXCEPT !.password = t])

ClickLoginButton ==
    /\ Ready
    /\ Call(Invoke("clickLoginButton"))

SetRememberMe ==
    /\ Ready
    /\ \E b \in BOOLEAN : Call([Invoke("setRememberMe") EXCEPT !.checked = b])

Login ==
    /\ Ready
    /\ \E c \in UserCredentials :
         Call([Invoke("login") EXCEPT !.email = c.email, !.password = c.password,
         !.rememberMe = c.rememberMe])

QuickLogin ==
    /\ Ready
    /\ \E c \in UserCredentials :
         Call([Invoke("quickLogin") EXCEPT !.email = c.email, !.password = c.password,
         !.rememberMe = c.rememberMe])

ClearForm ==
    /\ Ready
    /\ Call(Invoke("clearForm"))

GetEmailValue ==
    /\ Ready
    /\ Call(Invoke("getEmailValue"))

GetPasswordValue ==
    /\ Ready
    /\ Call(Invoke("getPasswordValue"))

IsRememberMeChecked ==
    /\ Ready
    /\ Call(Invoke("isRememberMeChecked"))

IsElementVisible ==
    /\ Ready
    /\ \E l \in Locators : Call([Invoke("isElementVisible") EXCEPT !.locator = l])

WaitForLoadingToComplete ==
    /\ Ready
    /\ Call(Invoke("waitForLoadingToComplete"))

AttemptLogin ==
    /\ Ready
    /\ \E c \in UserCredentials, b \in BOOLEAN :
         Call([Invoke("attemptLogin") EXCEPT !.email = c.email, !.password = c.password,
         !.rememberMe = c.rememberMe,
         !.expectSuccess = b])

IsUserLoggedIn ==
    /\ Ready
    /\ Call(Invoke("isUserLoggedIn"))

TogglePasswordVisibility ==
    /\ Ready
    /\ Call(Invoke("togglePasswordVisibility"))

NavigateToUrl ==
    /\ Ready
    /\ \E b \in BaseUrls \ {"undefined"} :
         Call([Invoke("navigateToUrl") EXCEPT !.url = b \o LOGIN])

WaitForPageLoad ==
    /\ Ready
    /\ Call(Invoke("waitForPageLoad"))

NavigateToLogin ==
    /\ Ready
    /\ \E b \in BaseUrls : Call([Invoke("navigateToLogin") EXCEPT !.url = b])

ValidateUserProfileInfo ==
    /\ Ready
    /\ \E e \in ExpectedEmails, n \in ExpectedNames :
         Call([Invoke("validateUserProfileInfo") EXCEPT !.email = e, !.name = n])

ClickLogout ==
    /\ Ready
    /\ Call(Invoke("clickLogout"))

Logout ==
    /\ Ready
    /\ Call(Invoke("logout"))

NavigateToProfile ==
    /\ Ready
    /\ Call(Invoke("navigateToProfile"))

NavigateToSettings ==
    /\ Ready
    /\ Call(Invoke("navigateToSettings"))

ValidateAdminElements ==
    /\ Ready
    /\ Call(Invoke("validateAdminElements"))

ValidateStandardUserElements ==
    /\ Ready
    /\ Call(Invoke("validateStandardUserElements"))

ValidateDashboardIsLoaded ==
    /\ Ready
    /\ Call(Invoke("validateDashboardIsLoaded"))

ValidateSuccessfulLogin ==
    /\ Ready
    /\ Call(Invoke("validateSuccessfulLogin"))

ValidateErrorMessage ==
    /\ Ready
    /\ \E e \in ExpectedMessages : Call([Invoke("validateErrorMessage") EXCEPT !.expected = e])

ValidateNoErrorMessage ==
    /\ Ready
    /\ Call(Invoke("validateNoErrorMessage"))

ValidateEmailValidation ==
    /\ Ready
    /\ \E e \in ExpectedEmailErrors :
         Call([Invoke("validateEmailValidation") EXCEPT !.expected = e])

ValidatePasswordValidation ==
    /\ Ready
    /\ \E e \in ExpectedPasswordErrors :
         Call([Invoke("validatePasswordValidation") EXCEPT !.expected = e])

WaitForElement ==
    /\ Ready
    /\ \E l \in Locators : Call([Invoke("waitForElement") EXCEPT !.locator = l])

RefreshPage ==
    /\ Ready
    /\ Call(Invoke("refreshPage"))

GoBack ==
    /\ Ready
    /\ Call(Invoke("goBack"))

GoForward ==
    /\ Ready
    /\ Call(Invoke("goForward"))

ValidateDashboardUrl ==
    /\ Ready
    /\ Call(Invoke("validateDashboardUrl"))

\* the texts the element read can show: the banner of the login page, a
\* validation hint under a field, or a profile display of the dashboard
TextsShown ==
    IF cur.op = "validateUserProfileInfo" THEN DisplayTexts
    ELSE IF cur.op \in {"validateEmailValidation", "validatePasswordValidation"} THEN HintTexts
    ELSE BannerTexts

\* what the page can answer to the call the operation is suspended at
Answers(m) ==
    IF m.awaiting = "textContent"
    THEN {[ok |-> TRUE, text |-> t] : t \in TextsShown} \cup {[ok |-> FALSE, text |-> ""]}
    ELSE IF m.awaiting = "url"
    THEN {[ok |-> TRUE, text |-> u] : u \in Urls}
    ELSE {[ok |-> b, text |-> ""] : b \in BOOLEAN}

\* The page answers the call the operation is suspended at; the operation
\* runs on to its next call, or to its end, where its effect on the form
\* and its outcome become the test's.
PageAnswers ==
    /\ cur.op # "idle"
    /\ UNCHANGED reports
    /\ \E a \in Answers(Running) :
          LET m == Run(cur, Append(oracle, a))
          IN  IF m.pending
              THEN /\ oracle' = Append(oracle, a)
                   /\ UNCHANGED <<email, password, remember, cur, last>>
              ELSE /\ email' = m.email
                   /\ password' = m.password
                   /\ remember' = m.remember
                   /\ last' = Outcome(cur, m)
                   /\ cur' = Idle
                   /\ oracle' = <<>>

Next ==
    \/ EnterEmail
    \/ EnterPassword
    \/ ClickLoginButton
    \/ SetRememberMe
    \/ Login
    \/ QuickLogin
    \/ ClearForm
    \/ GetEmailValue
    \/ GetPasswordValue
    \/ IsRememberMeChecked
    \/ IsElementVisible
    \/ WaitForLoadingToComplete
    \/ AttemptLogin
    \/ IsUserLoggedIn
    \/ TogglePasswordVisibility
    \/ PageAnswers

Spec == Init /\ [][Next]_vars

\* A test around the form: it gets to the login page and, once logged in,
\* works the dashboard.  None of these operations writes the form.
SessionNext ==
    \/ NavigateToUrl
    \/ WaitForPageLoad
    \/ NavigateToLogin
    \/ ValidateUserProfileInfo
    \/ ClickLogout
    \/ Logout
    \/ NavigateToProfile
    \/ NavigateToSettings
    \/ ValidateAdminElements
    \/ ValidateStandardUserElements
    \/ ValidateDashboardIsLoaded
    \/ ValidateSuccessfulLogin
    \/ ValidateErrorMessage
    \/ ValidateNoErrorMessage
    \/ ValidateEmailValidation
    \/ ValidatePasswordValidation
    \/ PageAnswers

SessionSpec == Init /\ [][SessionNext]_vars

\* the time limit of the engine call the operation in flight is suspended
\* at, in milliseconds (0: no limit): the timeout the call is recorded with
TimeLimit ==
    Run(cur, Append(oracle, [ok |-> TRUE, text |-> ""])).log[Len(Running.log) + 1].timeout

\* The time limit of the test (playwright config: timeout, 30 seconds per
\* test) runs out while an operation is suspended: the runner ends the test
\* as failed, and the operation never completes.
TestTimesOut ==
    /\ cur.op # "idle"
    /\ cur' = Idle
    /\ oracle' = <<>>
    /\ last' = [last EXCEPT !.ok = FALSE]
    /\ UNCHANGED <<email, password, remember>>
    /\ UNCHANGED reports

\* The operation in flight leaves the call it is suspended at: the page has
\* done what was asked or the time limit of the call has expired, or the
\* test's own time has run out.
Settles == TestTimesOut \/ PageAnswers

\* A test of the blocking operations: wait, click, fill, clear, read,
\* navigate, reload and history moves, and the location poll of logout.
BlockingNext ==
    \/ WaitForElement
    \/ ClickLoginButton
    \/ EnterEmail
    \/ ClearForm
    \/ GetEmailValue
    \/ NavigateToUrl
    \/ RefreshPage
    \/ GoBack
    \/ GoForward
    \/ Logout
    \/ ValidateDashboardUrl
    \/ PageAnswers
    \/ TestTimesOut

\* an operation does not stay suspended forever
BlockingSpec == Init /\ [][BlockingNext]_vars /\ WF_vars(Settles)

AuthenticatedPage ==
    /\ Ready
    /\ Call(Invoke("authenticatedPage"))

AdminPage ==
    /\ Ready
    /\ Call(Invoke("adminPage"))

\* the log of a fixture that has got to `await use(page)`
Used(log) == log # <<>> /\ log[Len(log)].call = "use"

\* The body of a test that asked for authenticatedPage or adminPage: it runs
\* on the page the fixture gave to `use`, here to validate the dashboard.
TestBody ==
    /\ Ready
    /\ last.call.op \in {"authenticatedPage", "adminPage"}
    /\ Used(last.log)
    /\ Call(Invoke("validateDashboardIsLoaded"))

FixtureNext ==
    \/ AuthenticatedPage
    \/ AdminPage
    \/ TestBody
    \/ PageAnswers

\* tests that ask for a logged-in page
FixtureSpec == Init /\ [][FixtureNext]_vars

\* global setup runs once, before any test
GlobalSetup ==
    /\ Ready
    /\ last.call.op = "idle"
    /\ \E b \in ConfigBaseUrls, e \in Environments :
          Call([Invoke("globalSetup") EXCEPT !.url = b, !.env = e])

SetupNext ==
    \/ GlobalSetup
    \/ PageAnswers

\* runs of the test suite's global setup
SetupSpec == Init /\ [][SetupNext]_vars

\* a millisecond passes
Tick ==
    /\ now < MaxClock
    /\ now' = now + 1
    /\ UNCHANGED <<shot, taken, files>>
    /\ UNCHANGED form

\* A worker calls takeScreenshot(name): the path is made from the name, or
\* from the clock when there is none, and page.screenshot is awaited.
TakeScreenshot ==
    /\ Len(taken) < MaxShots
    /\ \E w \in Workers, name \in ScreenshotNames :
          /\ shot[w] = ""
          /\ taken' = Append(taken, [worker |-> w, name |-> name, at |-> now,
                                     path |-> screenshotPath(name, now)])
          /\ shot' = [shot EXCEPT ![w] = screenshotPath(name, now)]
    /\ UNCHANGED <<now, files>>
    /\ UNCHANGED form

\* the calls of worker w, as positions in `taken`
CallsOf(w) == {i \in DOMAIN taken : taken[i].worker = w}

\* the call worker w is in: its latest
CallOf(w) == CHOOSE i \in CallsOf(w) : \A j \in CallsOf(w) : j <= i

\* page.screenshot of a worker ends, some time after it was called: the file
\* at the path is written, whatever was there, or the call rejects and leaves
\* the directory as it was.
ScreenshotSettles ==
    /\ \E w \in Workers, ok \in BOOLEAN :
          /\ shot[w] # ""
          /\ now > taken[CallOf(w)].at
          /\ shot' = [shot EXCEPT ![w] = ""]
          /\ files' = IF ok
                      THEN [f \in DOMAIN files \cup {shot[w]} |->
                               IF f = shot[w] THEN CallOf(w) ELSE files[f]]
                      ELSE files
    /\ UNCHANGED <<now, taken>>
    /\ UNCHANGED form

ScreenshotNext ==
    \/ Tick
    \/ TakeScreenshot
    \/ ScreenshotSettles

\* workers of a parallel run taking screenshots into the shared directory
ScreenshotSpec == Init /\ [][ScreenshotNext]_vars

----------------------------------------------------------------------------
(* Vocabulary of the properties.                                           *)

\* the operation op has just completed (none in flight since)
Completed(op) == cur.op = "idle" /\ last.call.op = op

\* this step completes the operation op
Completes(op) == cur.op = op /\ cur'.op = "idle"

\* positions of the clicks on el in a log
ClicksOn(log, el) == {i \in DOMAIN log : log[i].call = "click" /\ log[i].el = el}

\* positions of the engine calls on el in a log
CallsOn(log, el) == {i \in DOMAIN log : log[i].el = el}

\* positions of the calls that failed
Failures(log) == {i \in DOMAIN log : log[i].res # "ok"}

\* longest time the calls of a log can have blocked, in milliseconds
RECURSIVE Waited(_)
Waited(log) == IF log = <<>> THEN 0 ELSE log[1].timeout + Waited(Tail(log))

----------------------------------------------------------------------------
(* LoginPage.setRememberMe                                                 *)

\* what a completed setRememberMe(checked) read from the checkbox ("" when it
\* failed before reading)
ReadBySetRememberMe(log) ==
    IF \E i \in DOMAIN log : log[i].call = "isChecked" /\ log[i].res = "ok"
    THEN log[CHOOSE i \in DOMAIN log : log[i].call = "isChecked" /\ log[i].res = "ok"].val
    ELSE ""

\* C1: setRememberMe(checked) clicks the remember-me checkbox only when the
\* state it has just read differs from `checked`, and at most once; when
\* setRememberMe(true) is called twice in a row, the second call does not
\* click and the two calls click at most once in total.
C1_SetRememberMeClicksOnlyOnDifference ==
    [][ Completes("setRememberMe") =>
          /\ Cardinality(ClicksOn(last'.log, REMEMBER_ME_CHECKBOX)) <= 1
          /\ ClicksOn(last'.log, REMEMBER_ME_CHECKBOX) # {} =>
                ReadBySetRememberMe(last'.log) = BoolStr(~cur.checked)
          /\ ReadBySetRememberMe(last'.log) = BoolStr(cur.checked) =>
                ClicksOn(last'.log, REMEMBER_ME_CHECKBOX) = {}
          /\ (last.call.op = "setRememberMe" /\ last.call.checked /\ cur.checked) =>
                /\ ClicksOn(last'.log, REMEMBER_ME_CHECKBOX) = {}
                /\ Cardinality(ClicksOn(last.log, REMEMBER_ME_CHECKBOX)) <= 1
      ]_vars

\* a setRememberMe(true) that clicked has returned and a second setRememberMe(true)
\* is under way
C1_Witness ==
    /\ cur.op = "setRememberMe" /\ cur.checked
    /\ last.call.op = "setRememberMe" /\ last.call.checked /\ last.ok
    /\ ClicksOn(last.log, REMEMBER_ME_CHECKBOX) # {}
    /\ Len(Running.log) = 1

\* C2: once setRememberMe(c) has returned normally the checkbox is in state
\* c, whatever it was before and whatever was requested before, and an
\* isRememberMeChecked() that follows returns c.
C2_SetRememberMeReachesRequestedState ==
    [][ /\ (Completes("setRememberMe") /\ last'.ok) => remember' = cur.checked
        /\ (Completes("isRememberMeChecked") /\ last'.ok) =>
              /\ last'.retB = remember
              /\ remember' = remember
              /\ last.call.op = "setRememberMe" => last'.retB = last.call.checked
      ]_vars

\* setRememberMe(true) has found the checkbox unchecked, clicked it and returned
C2_Witness ==
    /\ Completed("setRememberMe")
    /\ last.ok /\ last.call.checked
    /\ ReadBySetRememberMe(last.log) = "false"
    /\ ClicksOn(last.log, REMEMBER_ME_CHECKBOX) # {}
    /\ remember

----------------------------------------------------------------------------
(* LoginPage.clearForm                                                     *)

\* C3: from every form state a clearForm() that returns normally leaves the
\* email empty, the password empty and remember-me unchecked, and a second
\* clearForm() right after it ends in that same state without clicking the
\* checkbox.
C3_ClearFormResetsAndIsIdempotent ==
    [][ (Completes("clearForm") /\ last'.ok) =>
          /\ email' = "" /\ password' = "" /\ ~remember'
          /\ (last.call.op = "clearForm") =>
                /\ ClicksOn(last'.log, REMEMBER_ME_CHECKBOX) = {}
                /\ <<email', password', remember'>> = <<email, password, remember>>
      ]_vars

\* a clearForm() that had fields to clear and the checkbox to untick has
\* returned, and a second clearForm() is under way on the cleared form
C3_Witness ==
    /\ cur.op = "clearForm"
    /\ last.call.op = "clearForm" /\ last.ok
    /\ ClicksOn(last.log, REMEMBER_ME_CHECKBOX) # {}
    /\ Len(Running.log) = 2
    /\ email = "" /\ password = "" /\ ~remember

----------------------------------------------------------------------------
(* LoginPage.login                                                         *)

IsLogin(op) == op \in {"login", "quickLogin"}

\* the log of the login under way or just completed
LoginLog == IF cur.op = "idle" THEN last.log ELSE Running.log

LoginCall == IF cur.op = "idle" THEN last.call ELSE cur

\* C4: in every execution of login(credentials) the engine calls come in the
\* order fill email, fill password, (read of the checkbox, when remember-me
\* is requested), click on submit: a click on submit is the last call of the
\* log, every call before it has succeeded, both fields have been filled
\* with the credentials before it, and a login that returns normally has
\* clicked submit.
C4_LoginSubmitsLast ==
    IsLogin(LoginCall.op) =>
        LET log == LoginLog
            c == LoginCall
            Fill(i, el, text) ==
                log[i].call = "fill" /\ log[i].el = el /\ log[i].text = text /\ log[i].res = "ok"
        IN  /\ \A i \in ClicksOn(log, LOGIN_BUTTON) :
                /\ i = Len(log)
                /\ \A j \in 1..(i - 1) : log[j].res = "ok"
                /\ \E j, k \in 1..(i - 1) :
                      /\ j < k
                      /\ Fill(j, EMAIL_INPUT, c.email)
                      /\ Fill(k, PASSWORD_INPUT, c.password)
                      /\ Truthy(c.rememberMe) =>
                            \E r \in (k + 1)..(i - 1) :
                                log[r].call = "isChecked" /\ log[r].el = REMEMBER_ME_CHECKBOX
            /\ \A j, k \in DOMAIN log :
                  (log[j].el = EMAIL_INPUT /\ log[k].el = PASSWORD_INPUT) => j < k
            /\ (cur.op = "idle" /\ last.ok) =>
                  \E i \in ClicksOn(log, LOGIN_BUTTON) : log[i].res = "ok"

\* a login that asked for remember-me has ticked the checkbox and submitted
C4_Witness ==
    /\ Completed("login") /\ last.ok
    /\ Truthy(last.call.rememberMe)
    /\ ClicksOn(last.log, REMEMBER_ME_CHECKBOX) # {}
    /\ ClicksOn(last.log, LOGIN_BUTTON) = {Len(last.log)}

\* C5: when credentials.rememberMe is false or absent (quickLogin's default
\* included) login() makes no call on the remember-me checkbox, neither a
\* read nor a click, and leaves its state as it was, checked or not.
C5_LoginLeavesCheckboxAlone ==
    [][ \A op \in {"login", "quickLogin"} :
          (Completes(op) /\ ~Truthy(cur.rememberMe)) =>
              /\ CallsOn(last'.log, REMEMBER_ME_CHECKBOX) = {}
              /\ remember' = remember
      ]_vars

\* a quickLogin without remember-me has submitted with the checkbox still checked
C5_Witness ==
    /\ Completed("quickLogin") /\ last.ok
    /\ last.call.rememberMe = "undefined"
    /\ remember
    /\ ClicksOn(last.log, LOGIN_BUTTON) # {}

----------------------------------------------------------------------------
(* LoginPage.enterEmail / enterPassword                                    *)

EmailWriters == {"enterEmail", "login", "quickLogin", "attemptLogin", "clearForm"}
PasswordWriters == {"enterPassword", "login", "quickLogin", "attemptLogin", "clearForm"}

\* C6: after enterEmail(t) (enterPassword(t)) has returned normally the
\* field holds exactly t, whatever it held before, and the other field is
\* unchanged; getEmailValue() (getPasswordValue()) returns the value of the
\* field, which only an operation that writes the field changes.
C6_FillSetsExactValue ==
    [][ /\ (Completes("enterEmail") /\ last'.ok) =>
              email' = cur.email /\ password' = password
        /\ (Completes("enterPassword") /\ last'.ok) =>
              password' = cur.password /\ email' = email
        /\ (Completes("getEmailValue") /\ last'.ok) => last'.retS = email
        /\ (Completes("getPasswordValue") /\ last'.ok) => last'.retS = password
        /\ email' # email => cur.op \in EmailWriters
        /\ password' # password => cur.op \in PasswordWriters
      ]_vars

\* enterEmail(t) is under way on a field that holds another, non-empty text:
\* it has cleared the field and is about to fill it
C6_Witness ==
    /\ cur.op = "enterEmail"
    /\ cur.email = "test@example.com"
    /\ email = "invalid-email"
    /\ Len(Running.log) = 2
    /\ Running.log[2].call = "clear"
    /\ Running.email = ""

----------------------------------------------------------------------------
(* Failures: what is swallowed and what reaches the caller                 *)

\* C7: isElementVisible(locator) never fails; it makes one wait, bounded by
\* the 1-second probe timeout; it returns false when the element stayed
\* absent through that wait and true only when the wait observed it visible.
C7_IsElementVisibleIsASoftProbe ==
    Completed("isElementVisible") =>
        /\ last.ok
        /\ Len(last.log) = 1
        /\ last.log[1].call = "waitFor"
        /\ last.log[1].el = last.call.locator
        /\ last.log[1].text = "visible"
        /\ Waited(last.log) <= 1000
        /\ last.log[1].res = "timeout" => ~last.retB
        /\ last.retB => last.log[1].res = "ok"

\* isElementVisible has returned false for an element that stayed absent
C7_Witness ==
    /\ Completed("isElementVisible")
    /\ last.ok /\ ~last.retB
    /\ last.log[1].res = "timeout"
    /\ last.swallowed # {}

\* C8: waitForLoadingToComplete() returns normally when the spinner never
\* gets visible within the appear-timeout, without waiting for anything else.
C8_AbsentSpinnerIsNotAFailure ==
    (Completed("waitForLoadingToComplete") /\ last.log[1].res = "timeout") =>
        /\ last.ok
        /\ Len(last.log) = 1
        /\ last.log[1].el = LOADING_SPINNER
        /\ last.log[1].timeout = SHORT

\* waitForLoadingToComplete() has returned although the spinner never appeared
C8_Witness ==
    /\ Completed("waitForLoadingToComplete")
    /\ last.ok
    /\ Len(last.log) = 1
    /\ last.log[1].res = "timeout"
    /\ last.log[1].text = "visible"

\* positions of the failures that a catch block swallowed
SwallowedAt(o) == {s.at : s \in o.swallowed}

\* every failure that was not swallowed has failed the operation there and then
UnswallowedFailuresPropagate(o) ==
    Failures(o.log) \ SwallowedAt(o) = IF o.ok THEN {} ELSE {Len(o.log)}

\* C9 as stated: the only failure an operation catches and turns into a
\* normal return is the absence of the loading indicator inside
\* waitForLoadingToComplete, besides the timeout of the isElementVisible
\* probe; every other failure reaches the caller.
C9_OnlySpinnerAbsenceIsSwallowed ==
    cur.op = "idle" =>
        /\ \A s \in last.swallowed :
              \/ s.site = "isElementVisible"
              \/ /\ s.site = "waitForLoadingToComplete"
                 /\ last.log[s.at].call = "waitFor"
                 /\ last.log[s.at].el = LOADING_SPINNER
                 /\ last.log[s.at].text = "visible"
        /\ UnswallowedFailuresPropagate(last)

\* C9 as amended: failures are caught and turned into a normal return in
\* three places only: waitForLoadingToComplete (a wait on the spinner that
\* timed out, for its appearance or for its disappearance), isElementVisible
\* (the probe timed out; returns false) and isUserLoggedIn (the dashboard
\* header check failed; returns false).  Every other failure reaches the
\* caller.
C9_SwallowsAreTheThreeCatchBlocks ==
    cur.op = "idle" =>
        /\ \A s \in last.swallowed :
              \/ /\ s.site = "isElementVisible"
                 /\ last.log[s.at].call = "waitFor"
                 /\ last.log[s.at].timeout = ProbeTimeout
              \/ /\ s.site = "waitForLoadingToComplete"
                 /\ last.log[s.at].call = "waitFor"
                 /\ last.log[s.at].el = LOADING_SPINNER
              \/ /\ s.site = "isUserLoggedIn"
                 /\ last.log[s.at].el = DASHBOARD_HEADER
                 /\ ~last.retB
        /\ UnswallowedFailuresPropagate(last)

\* isUserLoggedIn() has returned false, normally, after its header check failed
C9_Witness ==
    /\ Completed("isUserLoggedIn")
    /\ last.ok /\ ~last.retB
    /\ Failures(last.log) # {}
    /\ \E s \in last.swallowed : s.site = "isUserLoggedIn"

\* C10: a wait for the loading spinner to get hidden that times out fails
\* the operation that issued it, waitForLoadingToComplete, and attemptLogin
\* which calls it.
C10_StuckSpinnerFailsTheOperation ==
    (cur.op = "idle" /\ last.call.op \in {"waitForLoadingToComplete", "attemptLogin"}) =>
        \A i \in DOMAIN last.log :
            (/\ last.log[i].call = "waitFor"
             /\ last.log[i].el = LOADING_SPINNER
             /\ last.log[i].text = "hidden"
             /\ last.log[i].res = "timeout") => ~last.ok

----------------------------------------------------------------------------
(* LoginPage.attemptLogin                                                  *)

\* position of the successful click on submit in a log (0 when there is none)
SubmitAt(log) ==
    IF \E i \in ClicksOn(log, LOGIN_BUTTON) : log[i].res = "ok"
    THEN CHOOSE i \in ClicksOn(log, LOGIN_BUTTON) : log[i].res = "ok"
    ELSE 0

\* the entry is the poll of the location for a path that does not contain `path`
IsPathPoll(e, path) ==
    e.call = "waitForFunction" /\ e.el = "location" /\ e.text = path /\ e.timeout = MEDIUM

\* C11: attemptLogin(credentials, true) returns normally only if its last
\* call, made after the click on submit and after the waits on the loading
\* spinner, is the bounded poll that observed the location path not to
\* contain the login path; it fails when that poll times out; it makes no
\* other check of the location, in particular none for a destination.
C11_AttemptLoginSuccessIsLeavingLoginPath ==
    (Completed("attemptLogin") /\ last.call.expectSuccess) =>
        LET log == last.log
            n == Len(log)
            s == SubmitAt(log)
        IN  /\ last.ok =>
                  /\ n > 0 /\ IsPathPoll(log[n], LOGIN) /\ log[n].res = "ok"
                  /\ 0 < s /\ s < n
                  /\ \E i \in (s + 1)..(n - 1) : log[i].el = LOADING_SPINNER
                  /\ \A i \in (s + 1)..(n - 1) :
                        log[i].call = "waitFor" /\ log[i].el = LOADING_SPINNER
            /\ (n > 0 /\ IsPathPoll(log[n], LOGIN) /\ log[n].res = "timeout") => ~last.ok
            /\ \A i \in CallsOn(log, "location") : i = n /\ IsPathPoll(log[i], LOGIN)
            /\ \A i \in DOMAIN log : log[i].text # DASHBOARD

\* attemptLogin(credentials, true) has returned normally: the spinner came
\* and went and the location was seen to have left the login path
C11_Witness ==
    /\ Completed("attemptLogin") /\ last.call.expectSuccess /\ last.ok
    /\ last.swallowed = {}
    /\ IsPathPoll(last.log[Len(last.log)], LOGIN)
    /\ last.log[Len(last.log)].res = "ok"

\* C12: attemptLogin(credentials, false) returns normally only if, after the
\* click on submit, the error banner got visible within the bounded wait and
\* the text read from it contains the standard invalid-credentials message;
\* in every other case it fails.  It makes no check of the location.
C12_AttemptLoginFailureIsTheInvalidCredentialsBanner ==
    (Completed("attemptLogin") /\ ~last.call.expectSuccess) =>
        LET log == last.log
            s == SubmitAt(log)
            BannerSeen ==
                /\ s > 0 /\ Len(log) >= s + 4
                /\ log[s + 1] = Entry("waitFor", ERROR_MESSAGE, "visible", MEDIUM, "ok", "")
                /\ log[s + 2].call = "expect.toBeVisible" /\ log[s + 2].el = ERROR_MESSAGE
                /\ log[s + 2].res = "ok"
                /\ log[s + 4].call = "textContent" /\ log[s + 4].el = ERROR_MESSAGE
                /\ log[s + 4].res = "ok"
                /\ Includes(log[s + 4].val, INVALID_CREDENTIALS)
        IN  /\ last.ok <=> BannerSeen
            /\ last.swallowed = {}
            /\ CallsOn(log, "location") = {}

\* attemptLogin(credentials, false) has failed on a banner that shows another message
C12_Witness ==
    /\ Completed("attemptLogin") /\ ~last.call.expectSuccess /\ ~last.ok
    /\ \E i \in DOMAIN last.log :
          /\ last.log[i].call = "textContent"
          /\ last.log[i].val = SERVER_ERROR

----------------------------------------------------------------------------
(* Navigation                                                              *)

\* the entry is a call of kind `call` on `el` with argument `text`
Is(e, call, el, text) == e.call = call /\ e.el = el /\ e.text = text

\* the calls of navigateToLogin, in the order of the code
NavigateToLoginSteps ==
    << <<"goto", "page", "networkidle">>,
       <<"waitForLoadState", "page", "networkidle">>,
       <<"waitForLoadState", "page", "domcontentloaded">>,
       <<"waitFor", LOGIN_FORM, "visible">>,
       <<"expect.toBeVisible", LOGIN_FORM, "">>,
       <<"expect.toBeVisible", EMAIL_INPUT, "">>,
       <<"expect.toBeVisible", PASSWORD_INPUT, "">>,
       <<"expect.toBeVisible", LOGIN_BUTTON, "">> >>

\* C14: navigateToLogin() makes its calls in this order: the navigation to
\* <base URL>/login, the two page-load waits, the wait for the login form and
\* the checks that form, email input, password input and submit button are
\* visible.  It stops at the first call that fails, and it returns normally
\* if and only if all of them succeeded, so only when the four elements
\* were observed visible.
C14_NavigateToLoginIsTheEntryBarrier ==
    Completed("navigateToLogin") =>
        LET log == last.log
            n == Len(log)
        IN  /\ 1 <= n /\ n <= Len(NavigateToLoginSteps)
            /\ \A i \in 1..n :
                  Is(log[i], NavigateToLoginSteps[i][1], NavigateToLoginSteps[i][2],
                     NavigateToLoginSteps[i][3])
            /\ log[1].val = IF last.call.url = "undefined"
                            THEN "https://example.com/login"
                            ELSE "http://localhost:3000/login"
            /\ \A i \in 1..(n - 1) : log[i].res = "ok"
            /\ last.ok <=> (n = Len(NavigateToLoginSteps) /\ Failures(log) = {})
            /\ last.swallowed = {}

\* navigateToLogin() has failed on the password input, after the form and the
\* email input were seen
C14_Witness ==
    /\ Completed("navigateToLogin") /\ ~last.ok
    /\ Len(last.log) = 7
    /\ last.log[7].el = PASSWORD_INPUT /\ last.log[7].res = "fail"
    /\ last.log[1].val = "https://example.com/login"

\* the log holds a successful wait of the page for the load state `state`
WaitedFor(log, state) ==
    \E i \in DOMAIN log : log[i].el = "page" /\ log[i].text = state /\ log[i].res = "ok"

\* C15 as stated: navigateToUrl(url) and waitForPageLoad() each return
\* normally only after both conditions, network idle and document content
\* loaded, have been waited for.
C15_BothConditionsInNavigateToUrlAndWaitForPageLoad ==
    (cur.op = "idle" /\ last.call.op \in {"navigateToUrl", "waitForPageLoad"} /\ last.ok) =>
        WaitedFor(last.log, "networkidle") /\ WaitedFor(last.log, "domcontentloaded")

\* C15 as amended: navigateToUrl(url) makes one call, the navigation that
\* waits for network idle, and fails when it times out; it does not wait for
\* the document content.  waitForPageLoad() waits for network idle and then
\* for the document content, returns normally only when both waits
\* succeeded and fails when either times out; navigateToLogin(), which calls
\* the two, returns only after both conditions.
C15_WaitForPageLoadWaitsForBothConditions ==
    /\ Completed("navigateToUrl") =>
          /\ Len(last.log) = 1
          /\ Is(last.log[1], "goto", "page", "networkidle")
          /\ last.log[1].val = last.call.url
          /\ last.log[1].timeout = 30000
          /\ last.ok <=> last.log[1].res = "ok"
    /\ Completed("waitForPageLoad") =>
          /\ Is(last.log[1], "waitForLoadState", "page", "networkidle")
          /\ Len(last.log) > 1 =>
                /\ Len(last.log) = 2
                /\ last.log[1].res = "ok"
                /\ Is(last.log[2], "waitForLoadState", "page", "domcontentloaded")
          /\ \A i \in DOMAIN last.log : last.log[i].timeout = 30000
          /\ last.ok <=> (WaitedFor(last.log, "networkidle")
                            /\ WaitedFor(last.log, "domcontentloaded"))
          /\ Failures(last.log) # {} => ~last.ok
    /\ (Completed("navigateToLogin") /\ last.ok) =>
          WaitedFor(last.log, "networkidle") /\ WaitedFor(last.log, "domcontentloaded")

\* waitForPageLoad() has failed: the network was idle, the document content did
\* not load in time
C15_Witness ==
    /\ Completed("waitForPageLoad") /\ ~last.ok
    /\ Len(last.log) = 2
    /\ last.log[1].res = "ok"
    /\ last.log[2].text = "domcontentloaded" /\ last.log[2].res = "timeout"

----------------------------------------------------------------------------
(* DashboardPage                                                           *)

\* the entry is the soft probe of isElementVisible for el
IsProbe(e, el) == Is(e, "waitFor", el, "visible") /\ e.timeout = ProbeTimeout

\* the entry is a probe that reported el visible
ProbedVisible(e, el) == IsProbe(e, el) /\ e.res = "ok"

\* C16: validateStandardUserElements() probes the admin panel and the
\* user-management link and, for every combination of what the two probes
\* report, returns normally only when both reported not visible: it fails
\* whenever either control is visible.
C16_StandardUserSeesNoAdminControl ==
    Completed("validateStandardUserElements") =>
        /\ Len(last.log) >= 2
        /\ IsProbe(last.log[1], ADMIN_PANEL)
        /\ IsProbe(last.log[2], USER_MANAGEMENT_LINK)
        /\ last.ok <=> (last.log[1].res = "timeout" /\ last.log[2].res = "timeout")

\* validateStandardUserElements() has failed with the admin panel hidden and
\* the user-management link visible
C16_Witness ==
    /\ Completed("validateStandardUserElements") /\ ~last.ok
    /\ last.log[1].res = "timeout"
    /\ ProbedVisible(last.log[2], USER_MANAGEMENT_LINK)

\* C17: validateAdminElements() does not fail when an admin-only control is
\* absent: a probe that reports a control not visible never fails it, with
\* neither control visible it returns normally after the two probes, and it
\* asserts the visibility of a control only right after the probe has
\* reported that control visible.
C17_AdminControlsAreCheckedOnlyWhenSeen ==
    Completed("validateAdminElements") =>
        LET log == last.log
        IN  /\ IsProbe(log[1], ADMIN_PANEL)
            /\ \A i \in DOMAIN log :
                  /\ log[i].call = "expect.toBeVisible" =>
                        i > 1 /\ ProbedVisible(log[i - 1], log[i].el)
                  /\ log[i].call # "expect.toBeVisible" =>
                        \/ IsProbe(log[i], ADMIN_PANEL)
                        \/ IsProbe(log[i], USER_MANAGEMENT_LINK)
                  /\ (log[i].call = "waitFor" /\ log[i].res = "timeout") => i \in SwallowedAt(last)
            /\ (~\E i \in DOMAIN log : log[i].call = "waitFor" /\ log[i].res = "ok") =>
                  /\ last.ok
                  /\ Len(log) = 2
                  /\ IsProbe(log[2], USER_MANAGEMENT_LINK)
            /\ ~last.ok => log[Len(log)].call = "expect.toBeVisible"

\* validateAdminElements() has returned normally with neither control visible
C17_Witness ==
    /\ Completed("validateAdminElements") /\ last.ok
    /\ Len(last.log) = 2
    /\ last.log[1].res = "timeout" /\ last.log[2].res = "timeout"

\* what validateUserProfileInfo(expected, ...) has done about one display:
\* nothing without an expected value; else a probe, and a comparison of the
\* text only after the probe has reported the display visible
DisplayCheckedSoftly(o, expected, display) ==
    LET log == o.log
    IN  /\ ~StrTruthy(expected) => CallsOn(log, display) = {}
        /\ \A i \in CallsOn(log, display) :
              /\ IsProbe(log[i], display) \/ \E j \in 1..(i - 1) : ProbedVisible(log[j], display)
              /\ (IsProbe(log[i], display) /\ log[i].res = "timeout") =>
                    /\ i \in SwallowedAt(o)
                    /\ \A j \in CallsOn(log, display) : j <= i
              /\ (log[i].call = "textContent" /\ log[i].res = "ok") =>
                    /\ i < Len(log)
                    /\ log[i + 1] = Entry("expect.toContain", "", expected, 0,
                                          IF Includes(log[i].val, expected) THEN "ok" ELSE "fail",
                                          log[i].val)
                    /\ ~Includes(log[i].val, expected) => ~o.ok

\* C18: validateUserProfileInfo(email?, name?) fails when the profile
\* indicator is not visible.  For each of email and name it reads and
\* compares the displayed text only when an expected value was passed and
\* the probe has reported the display element visible: a display element
\* that is missing never fails the call, a visible one whose text does not
\* contain the expected value always does.
C18_ProfileInfoIsCheckedBestEffort ==
    Completed("validateUserProfileInfo") =>
        LET log == last.log
        IN  /\ log[1] \in {Entry("waitFor", USER_PROFILE, "visible", MEDIUM, r, "") :
                              r \in {"ok", "timeout"}}
            /\ log[1].res = "timeout" => ~last.ok /\ Len(log) = 1
            /\ Len(log) >= 2 => Is(log[2], "expect.toBeVisible", USER_PROFILE, "")
            /\ (Len(log) >= 2 /\ log[2].res = "fail") => ~last.ok /\ Len(log) = 2
            /\ DisplayCheckedSoftly(last, last.call.email, USER_EMAIL_DISPLAY)
            /\ DisplayCheckedSoftly(last, last.call.name, USER_NAME_DISPLAY)
            /\ \A i \in Failures(log) \ SwallowedAt(last) : ~last.ok /\ i = Len(log)
            /\ \A i \in SwallowedAt(last) :
                  IsProbe(log[i], USER_EMAIL_DISPLAY) \/ IsProbe(log[i], USER_NAME_DISPLAY)

\* validateUserProfileInfo(email, name) has returned normally with the email
\* display missing and the name display showing the expected name
C18_Witness ==
    /\ Completed("validateUserProfileInfo") /\ last.ok
    /\ StrTruthy(last.call.email) /\ StrTruthy(last.call.name)
    /\ \E i \in DOMAIN last.log :
          IsProbe(last.log[i], USER_EMAIL_DISPLAY) /\ last.log[i].res = "timeout"
    /\ \E i \in DOMAIN last.log :
          /\ Is(last.log[i], "textContent", USER_NAME_DISPLAY, "")
          /\ last.log[i].val = "Test User"

\* the link an operation of the two-step reveal pattern is after
RevealedLink(op) ==
    CASE op = "clickLogout" -> LOGOUT_BUTTON
      [] op = "logout" -> LOGOUT_BUTTON
      [] op = "navigateToProfile" -> PROFILE_LINK
      [] op = "navigateToSettings" -> SETTINGS_LINK
      [] OTHER -> ""

\* probe, open-if-hidden, click: the log starts with the probe of the link;
\* the dropdown is gone for exactly when the probe reported the link not
\* visible; a click on the link comes after the link was observed visible
\* and, when the dropdown was to be opened, after the click on the dropdown
\* and the wait for the logout control
RevealThenClick(o, link) ==
    LET log == o.log
        hidden == log[1].res = "timeout"
    IN  /\ IsProbe(log[1], link)
        /\ CallsOn(log, PROFILE_DROPDOWN) # {} <=> hidden
        /\ hidden => /\ 1 \in SwallowedAt(o)
                     /\ Len(log) >= 2
                     /\ log[2] \in {Entry("waitFor", PROFILE_DROPDOWN, "visible",
                                          DefaultTimeout, r, "") : r \in {"ok", "timeout"}}
        /\ \A i \in CallsOn(log, PROFILE_DROPDOWN) : i \in {2, 3}
        /\ \A k \in ClicksOn(log, link) :
              /\ k > 1
              /\ log[k - 1] = Entry("waitFor", link, "visible", DefaultTimeout, "ok", "")
              /\ \A j \in 1..(k - 1) : j \in Failures(log) => j = 1
              /\ hidden =>
                    /\ k = 6
                    /\ log[3] = Entry("click", PROFILE_DROPDOWN, "", ActionTimeout, "ok", "")
                    /\ log[4] = Entry("waitFor", LOGOUT_BUTTON, "visible", SHORT, "ok", "")
              /\ ~hidden => k = 3
        /\ o.ok =>
              /\ Cardinality(ClicksOn(log, link)) = 1
              /\ \A k \in ClicksOn(log, link) : log[k].res = "ok"
              /\ ClicksOn(log, PROFILE_DROPDOWN) # {} <=> hidden

\* C19: clickLogout() goes for the profile dropdown if and only if the soft
\* probe reported the logout control not visible, and in every execution
\* that returns normally it has clicked the dropdown exactly in that case,
\* and the click on the logout control is its last call and comes after the
\* logout control was observed visible.  navigateToProfile() and
\* navigateToSettings() follow the same order, probe, open-if-hidden, click,
\* for their own link, and then only wait for the page to load.
C19_TwoStepReveal ==
    /\ Completed("clickLogout") =>
          /\ RevealThenClick(last, LOGOUT_BUTTON)
          /\ last.ok => ClicksOn(last.log, LOGOUT_BUTTON) = {Len(last.log)}
    /\ \A op \in {"navigateToProfile", "navigateToSettings"} :
          Completed(op) =>
              /\ RevealThenClick(last, RevealedLink(op))
              /\ \A k \in ClicksOn(last.log, RevealedLink(op)) :
                    \A j \in (k + 1)..Len(last.log) : last.log[j].call = "waitForLoadState"

\* clickLogout() has found the logout control hidden, opened the dropdown and
\* clicked the logout control
C19_Witness ==
    /\ Completed("clickLogout") /\ last.ok
    /\ last.log[1].res = "timeout"
    /\ ClicksOn(last.log, PROFILE_DROPDOWN) = {3}
    /\ ClicksOn(last.log, LOGOUT_BUTTON) = {6}

\* C20: whenever logout() returns normally its last call is the bounded poll
\* that observed the location path not to contain the dashboard path, made
\* right after the click on the logout control, whether that control was
\* directly visible or the dropdown had to be opened first; when the poll
\* times out, logout() fails.
C20_LogoutLeavesTheDashboardPath ==
    Completed("logout") =>
        LET log == last.log
            n == Len(log)
        IN  /\ RevealThenClick(last, LOGOUT_BUTTON)
            /\ last.ok =>
                  /\ IsPathPoll(log[n], DASHBOARD) /\ log[n].res = "ok"
                  /\ ClicksOn(log, LOGOUT_BUTTON) = {n - 1}
                  /\ n = IF log[1].res = "timeout" THEN 7 ELSE 4
            /\ CallsOn(log, "location") \subseteq {n}
            /\ (IsPathPoll(log[n], DASHBOARD) /\ log[n].res = "timeout") => ~last.ok

\* logout() has opened the dropdown, clicked the logout control and seen the
\* location leave the dashboard path
C20_Witness ==
    /\ Completed("logout") /\ last.ok
    /\ last.log[1].res = "timeout"
    /\ ClicksOn(last.log, PROFILE_DROPDOWN) # {}
    /\ IsPathPoll(last.log[Len(last.log)], DASHBOARD)

\* the log holds the bounded wait for the dashboard header, answered
WaitedForHeader(log) ==
    \E i \in DOMAIN log : Is(log[i], "waitFor", DASHBOARD_HEADER, "visible") /\ log[i].timeout = MEDIUM

\* the log holds a check that the current URL contains the dashboard path
CheckedDashboardUrl(log) ==
    \E i \in DOMAIN log :
        /\ i > 1
        /\ Is(log[i], "expect.toContain", "", DASHBOARD)
        /\ log[i - 1].call = "url" /\ log[i].val = log[i - 1].val

\* C21 as stated: validateDashboardIsLoaded() and validateSuccessfulLogin()
\* each wait for the dashboard header and then check that the current URL
\* contains the dashboard path.
C21_BothValidationsCheckTheUrl ==
    (cur.op = "idle" /\ last.ok
       /\ last.call.op \in {"validateDashboardIsLoaded", "validateSuccessfulLogin"}) =>
        WaitedForHeader(last.log) /\ CheckedDashboardUrl(last.log)

\* C21 as amended: validateDashboardIsLoaded() waits (bounded) for the
\* dashboard header and asserts it visible, and looks at nothing else, the
\* URL included.  validateSuccessfulLogin() does the same, then asserts the
\* profile indicator visible, then checks that the current URL contains the
\* dashboard path; it fails at the first of these that does not hold.
C21_OnlySuccessfulLoginChecksTheUrl ==
    /\ Completed("validateDashboardIsLoaded") =>
          /\ last.log[1] \in {Entry("waitFor", DASHBOARD_HEADER, "visible", MEDIUM, r, "") :
                                 r \in {"ok", "timeout"}}
          /\ Len(last.log) > 1 =>
                Len(last.log) = 2 /\ Is(last.log[2], "expect.toBeVisible", DASHBOARD_HEADER, "")
          /\ last.ok <=> (Len(last.log) = 2 /\ Failures(last.log) = {})
          /\ CallsOn(last.log, "location") = {}
    /\ Completed("validateSuccessfulLogin") =>
          LET log == last.log
              n == Len(log)
          IN  /\ WaitedForHeader(log)
              /\ n >= 2 => Is(log[2], "expect.toBeVisible", DASHBOARD_HEADER, "")
              /\ n >= 3 => Is(log[3], "expect.toBeVisible", USER_PROFILE, "")
              /\ n >= 4 => n = 5 /\ log[4].call = "url" /\ CheckedDashboardUrl(log)
              /\ \A i \in 1..(n - 1) : log[i].res = "ok"
              /\ last.ok <=> (n = 5 /\ Includes(log[4].val, DASHBOARD))
              /\ (n = 3 /\ log[3].res = "fail") => ~last.ok

\* validateSuccessfulLogin() has failed on the URL, with the header and the
\* profile indicator visible
C21_Witness ==
    /\ Completed("validateSuccessfulLogin") /\ ~last.ok
    /\ Len(last.log) = 5
    /\ last.log[4].val = "https://example.com/login"
    /\ last.log[5].res = "fail"

----------------------------------------------------------------------------
(* LoginPage.togglePasswordVisibility, BasePage.clickElement               *)

\* C22: togglePasswordVisibility() probes the toggle.  When the probe
\* reports it not present the call returns normally with no click and no
\* further call; when the probe reports it visible the call goes on to
\* clickElement, clicks the toggle at most once, and exactly once when it
\* returns normally.  In no case does it change a form field.
C22_TogglePasswordVisibilityIsSilentWithoutToggle ==
    [][ Completes("togglePasswordVisibility") =>
          LET log == last'.log
          IN  /\ IsProbe(log[1], SHOW_PASSWORD_TOGGLE)
              /\ log[1].res = "timeout" =>
                    last'.ok /\ Len(log) = 1 /\ 1 \in SwallowedAt(last')
              /\ log[1].res = "ok" =>
                    /\ Len(log) >= 2
                    /\ Is(log[2], "waitFor", SHOW_PASSWORD_TOGGLE, "visible")
                    /\ Cardinality(ClicksOn(log, SHOW_PASSWORD_TOGGLE)) <= 1
                    /\ last'.ok => ClicksOn(log, SHOW_PASSWORD_TOGGLE) = {3} /\ Len(log) = 3
              /\ \A i \in DOMAIN log : log[i].el = SHOW_PASSWORD_TOGGLE
              /\ <<email', password', remember'>> = <<email, password, remember>>
      ]_vars

\* togglePasswordVisibility() has returned from a filled form without a toggle
C22_Witness ==
    /\ Completed("togglePasswordVisibility") /\ last.ok
    /\ Len(last.log) = 1 /\ last.log[1].res = "timeout"
    /\ password # "" /\ remember

\* the log of the operation under way or just completed
CurrentLog == IF cur.op = "idle" THEN last.log ELSE Running.log

----------------------------------------------------------------------------
(* LoginPage: validation hints and the error banner                        *)

\* the validation hint an operation is about
HintOf(op) == IF op = "validateEmailValidation" THEN EMAIL_VALIDATION ELSE PASSWORD_VALIDATION

\* C23: validateEmailValidation(expected) and validatePasswordValidation(
\* expected): with an expected value the call returns normally only if the
\* hint of the field was asserted visible and the text read from it contains
\* the expected value; with no expected value the call makes the soft probe
\* of the hint and returns normally only if the probe reported it not
\* visible, failing when it is visible.
C23_FieldHintIsCheckedOrRequiredAbsent ==
    \A op \in {"validateEmailValidation", "validatePasswordValidation"} :
        Completed(op) =>
            LET log == last.log
                hint == HintOf(op)
                expected == last.call.expected
            IN  /\ \A i \in DOMAIN log : log[i].el \in {hint, ""}
                /\ StrTruthy(expected) =>
                      /\ Len(log) >= 1
                      /\ Is(log[1], "expect.toBeVisible", hint, "")
                      /\ last.swallowed = {}
                      /\ last.ok <=>
                            /\ Len(log) = 4 /\ log[1].res = "ok"
                            /\ Is(log[3], "textContent", hint, "") /\ log[3].res = "ok"
                            /\ Includes(log[3].val, expected)
                            /\ log[4] = Entry("expect.toContain", "", expected, 0, "ok", log[3].val)
                /\ ~StrTruthy(expected) =>
                      /\ Len(log) = 2
                      /\ IsProbe(log[1], hint)
                      /\ log[2].call = "expect.toBe"
                      /\ last.ok <=> log[1].res = "timeout"

\* validateEmailValidation() without an expected value has failed on a hint that shows
C23_Witness ==
    /\ Completed("validateEmailValidation") /\ ~last.ok
    /\ last.call.expected = "undefined"
    /\ ProbedVisible(last.log[1], EMAIL_VALIDATION)

\* C24: validateErrorMessage(expected) returns normally only if the error
\* banner got visible within the bounded 10-second wait and the text read
\* from it contains `expected`; it fails when the banner does not appear
\* within that wait, and when the text does not contain `expected`.
C24_ErrorBannerIsAwaitedAndCompared ==
    Completed("validateErrorMessage") =>
        LET log == last.log
            expected == last.call.expected
        IN  /\ log[1] \in {Entry("waitFor", ERROR_MESSAGE, "visible", 10000, r, "") :
                              r \in {"ok", "timeout"}}
            /\ log[1].res = "timeout" => ~last.ok /\ Len(log) = 1
            /\ last.swallowed = {}
            /\ last.ok <=>
                  /\ Len(log) = 5 /\ log[1].res = "ok"
                  /\ Is(log[2], "expect.toBeVisible", ERROR_MESSAGE, "") /\ log[2].res = "ok"
                  /\ Is(log[4], "textContent", ERROR_MESSAGE, "") /\ log[4].res = "ok"
                  /\ Includes(log[4].val, expected)
            /\ \A i \in DOMAIN log :
                  (log[i].call = "textContent" /\ ~Includes(log[i].val, expected)) => ~last.ok

\* validateErrorMessage(expected) has failed: the banner did not appear in time
C24_Witness ==
    /\ Completed("validateErrorMessage") /\ ~last.ok
    /\ Len(last.log) = 1
    /\ last.log[1].res = "timeout" /\ last.log[1].timeout = MEDIUM

----------------------------------------------------------------------------
(* Termination of the blocking operations                                  *)

\* an operation is in flight
InFlight == cur.op # "idle"

\* the call the operation in flight is suspended at cannot block forever
SuspendedWithALimit == Running.awaiting \in Synchronous \/ TimeLimit > 0

\* the call the operation in flight is suspended at got its time limit from
\* the operation
SuspendedWithItsOwnLimit == Running.awaiting \in Synchronous \cup PassesTimeout

\* C26 as stated: every blocking operation ends, each of its calls returning
\* or failing on expiry of a timeout that the operation itself carries.
C26_OperationsEndOnTimeoutsTheyCarry ==
    /\ [](InFlight => SuspendedWithItsOwnLimit /\ SuspendedWithALimit)
    /\ (InFlight ~> ~InFlight)

\* C26: every blocking page-object operation ends: each call it is
\* suspended at has a positive time limit -- the timeout the operation
\* passes to a wait, a navigation or a location poll, or else the action or
\* navigation timeout of the configuration for a click, fill, clear, read,
\* reload or history move, to which the operation passes none -- and the
\* operation eventually returns, fails, or is ended with its test.
C26_OperationsEndOnPassedOrConfiguredTimeouts ==
    /\ [](InFlight => SuspendedWithALimit)
    /\ [](InFlight /\ ~SuspendedWithItsOwnLimit =>
             TimeLimit \in {ActionTimeout, ConfigNavigationTimeout})
    /\ (InFlight ~> ~InFlight)

\* clickLoginButton() has failed on expiry of the configured action timeout
\* of a click that the operation gave no timeout
C26_Witness ==
    /\ Completed("clickLoginButton") /\ ~last.ok
    /\ Len(last.log) = 2
    /\ last.log[2] = Entry("click", LOGIN_BUTTON, "", ActionTimeout, "fail", "")
    /\ "click" \notin PassesTimeout

----------------------------------------------------------------------------
(* BasePage.takeScreenshot                                                 *)

\* the call at position i of `taken` was made without a name
Unnamed(i) == ~StrTruthy(taken[i].name)

\* C27, first part: two takeScreenshot() calls made without a name never
\* write to the same file path, also when they come from concurrent workers.
C27_UnnamedScreenshotsNeverShareAPath ==
    \A i, j \in DOMAIN taken :
        (i # j /\ Unnamed(i) /\ Unnamed(j)) => taken[i].path # taken[j].path

\* C27, second part: two calls given the same explicit name write to the
\* same path, and a write to a path replaces whatever an earlier call wrote
\* there.
C27_SameNameSamePathLastWriteWins ==
    [][ /\ \A i, j \in DOMAIN taken :
             (~Unnamed(i) /\ taken[i].name = taken[j].name) =>
                 taken[i].path = taken[j].path
        /\ \A w \in Workers :
             (shot[w] # "" /\ shot'[w] = "" /\ files' # files) =>
                 files'[shot[w]] = CallOf(w) ]_vars

\* two workers have each taken a screenshot without a name in the same
\* millisecond, and the file of the first holds the screenshot of the second
C27_Witness ==
    /\ Len(taken) >= 2
    /\ Unnamed(1) /\ Unnamed(2)
    /\ taken[1].worker # taken[2].worker
    /\ taken[1].path = taken[2].path
    /\ taken[1].path \in DOMAIN files
    /\ files[taken[1].path] = 2
    /\ shot = [w \in Workers |-> ""]

----------------------------------------------------------------------------
(* The authenticatedPage and adminPage fixtures                            *)

Fixtures == {"authenticatedPage", "adminPage"}

\* the user a fixture logs in
FixtureUser(op) ==
    IF op = "authenticatedPage"
    THEN [email |-> "test@example.com", password |-> "ValidPassword123!"]
    ELSE [email |-> "admin@example.com", password |-> "AdminPassword123!"]

\* positions in a log where the page is handed to the test body
Uses(log) == {i \in DOMAIN log : log[i].call = "use"}

\* the log is that of a fixture for `user` that has gone through all its
\* steps: navigateToLogin, the login submission, the wait for the URL
LoggedInBeforeUse(log, user) ==
    LET n == Len(NavigateToLoginSteps)
    IN  /\ Len(log) = n + 10
        /\ Failures(log) = {}
        /\ \A i \in 1..n :
              Is(log[i], NavigateToLoginSteps[i][1], NavigateToLoginSteps[i][2],
                 NavigateToLoginSteps[i][3])
        /\ Is(log[n + 3], "fill", EMAIL_INPUT, user.email)
        /\ Is(log[n + 6], "fill", PASSWORD_INPUT, user.password)
        /\ Is(log[n + 8], "click", LOGIN_BUTTON, "")
        /\ log[n + 9] = Entry("waitForURL", "location", "**/dashboard", 10000, "ok", "")
        /\ log[n + 10].call = "use"

\* C29: in the authenticatedPage and adminPage fixtures the test body starts
\* only after navigateToLogin, the login submission and the wait for a URL
\* ending in /dashboard have all completed, in that order; if any of these
\* steps fails or the URL wait times out, the test body never runs.
C29_TestBodyStartsOnlyAfterLogin ==
    /\ \A op \in Fixtures :
          Completed(op) =>
              /\ Uses(last.log) # {} <=> last.ok
              /\ Uses(last.log) # {} => LoggedInBeforeUse(last.log, FixtureUser(op))
              /\ Failures(last.log) # {} => ~last.ok /\ Uses(last.log) = {}
              /\ last.swallowed = {}
    /\ cur.op = "validateDashboardIsLoaded" =>
          /\ last.call.op \in Fixtures /\ last.ok
          /\ LoggedInBeforeUse(last.log, FixtureUser(last.call.op))

\* the adminPage fixture has failed on the wait for the dashboard URL, after
\* the form was submitted, and the test body has not run
C29_Witness ==
    /\ Completed("adminPage") /\ ~last.ok
    /\ Len(last.log) = Len(NavigateToLoginSteps) + 9
    /\ last.log[Len(last.log)].call = "waitForURL"
    /\ last.log[Len(last.log)].res = "timeout"
    /\ SubmitAt(last.log) = Len(last.log) - 1
    /\ Uses(last.log) = {}

----------------------------------------------------------------------------
(* Global setup: warmupApplication                                         *)

\* positions of the successful calls `call` in a log
Done(log, call) == {i \in DOMAIN log : log[i].call = call /\ log[i].res = "ok"}

\* positions where the browser was asked to close
Closes(log) == {i \in DOMAIN log : log[i].call = "close"}

\* C30, first part: every browser launched by warmupApplication is closed
\* before warmupApplication returns.
C30_EveryLaunchedBrowserIsClosed ==
    Completed("globalSetup") =>
        \A i \in Done(last.log, "launch") : \E j \in Closes(last.log) : j > i

\* C30, the rest: once warmupApplication has its page, the browser is closed
\* whether both warmup navigations succeed or either one fails; a warmup
\* failure never fails globalSetup (only a report directory that cannot be
\* created does); with SKIP_WARMUP set to 'true' no browser is launched.
C30_ClosedAfterNavigationsAndNeverFatal ==
    Completed("globalSetup") =>
        LET log == last.log
        IN  /\ \A i \in Done(log, "newPage") : \E j \in Closes(log) : j > i
            /\ \A i \in DOMAIN log :
                  (log[i].call = "goto" /\ log[i].res # "ok") =>
                      \E j \in Closes(log) : j > i
            /\ last.ok <=> \A i \in DOMAIN log : log[i].call = "mkdirSync" => log[i].res = "ok"
            /\ last.call.env.SKIP_WARMUP = "true" =>
                  \A i \in DOMAIN log : log[i].call \in {"existsSync", "mkdirSync"}
            /\ Cardinality(Done(log, "launch")) <= 1

\* global setup has completed successfully with a browser launched and never
\* closed: the browser context could not be created
C30_Witness ==
    /\ Completed("globalSetup") /\ last.ok
    /\ Done(last.log, "launch") # {}
    /\ Closes(last.log) = {}
    /\ last.log[Len(last.log)] = Entry("newContext", "browser", "", 0, "fail", "")
    /\ last.swallowed # {}

====
